---- MODULE Spec2Model ----
(***************************************************************************)
(* Model of the durchblicker.at housing-loan sweep (test_durchblicker.py)  *)
(* and of its Run/Variation store (db_helper.py), with the report's        *)
(* latest-run-per-term map (generate_housing_loan_html.py).                *)
(*                                                                         *)
(* Python values are records [kind, val]: val is a one-element tuple for   *)
(* numbers and datetimes and a tuple of one-character strings for text.    *)
(* Floats are held in thousandths (1948.5 is 1948500).                     *)
(***************************************************************************)
EXTENDS Integers, Sequences, FiniteSets, TLC

(***************************************************************************)
(* Bounds of the model.                                                    *)
(***************************************************************************)
\* largest loan term (years) a configured term list may contain
MaxLaufzeit == 10
\* longest configured term list of a session
MaxTerms == 2
\* most recoverable faults (slider, extraction, storage) injected in a session
MaxFaults == 2
\* most rows (scraping_runs and fixierung_variations together) the store
\* API scenario creates
MaxRecords == 3

\* rows of a results panel given to scrape_offer_details
MaxPanelRows == 2

\* wizard fields that no strategy can set, per session
MaxFieldFailures == 1

\* characters of a text given to a number normalizer
MaxValueLen == 4

(***************************************************************************)
(* Python values.                                                          *)
(***************************************************************************)
Milli == 1000

PyNone == [kind |-> "None", val |-> <<>>]

PyInt(n) == [kind |-> "int", val |-> <<n>>]

PyFloat(m) == [kind |-> "float", val |-> <<m>>]

PyStr(s) == [kind |-> "str", val |-> s]

PyDatetime(t) == [kind |-> "datetime", val |-> <<t>>]

\* Python's == on the values above: int and float compare by numeric value,
\* values of different non-numeric types are unequal.
PyEq(a, b) ==
    IF a.kind \in {"int", "float"} /\ b.kind \in {"int", "float"}
    THEN (IF a.kind = "int" THEN a.val[1] * Milli ELSE a.val[1])
         = (IF b.kind = "int" THEN b.val[1] * Milli ELSE b.val[1])
    ELSE a.kind = b.kind /\ a.val = b.val

\* Python truthiness of an Optional[str]
Truthy(v) == v.kind # "None" /\ v.val # <<>>

(***************************************************************************)
(* Text helpers (str.replace on single characters, str.strip, float()).    *)
(***************************************************************************)
DigitChars == <<"0", "1", "2", "3", "4", "5", "6", "7", "8", "9">>

IsDigit(c) == \E i \in 1..10 : DigitChars[i] = c

DigitVal(c) == (CHOOSE i \in 1..10 : DigitChars[i] = c) - 1

RemoveChar(s, c) == SelectSeq(s, LAMBDA x : x # c)

ReplaceChar(s, a, b) == [i \in 1..Len(s) |-> IF s[i] = a THEN b ELSE s[i]]

RECURSIVE Strip(_)
Strip(s) ==
    IF s = <<>> THEN s
    ELSE IF Head(s) = " " THEN Strip(Tail(s))
    ELSE IF s[Len(s)] = " " THEN Strip(SubSeq(s, 1, Len(s) - 1))
    ELSE s

RECURSIVE DigitsToNat(_)
DigitsToNat(s) ==
    IF s = <<>> THEN 0
    ELSE DigitsToNat(SubSeq(s, 1, Len(s) - 1)) * 10 + DigitVal(s[Len(s)])

Pow10(k) == IF k = 0 THEN 1 ELSE IF k = 1 THEN 10 ELSE IF k = 2 THEN 100 ELSE 1000

ValueError == [kind |-> "ValueError", val |-> <<>>]

\* float(s) on decimal literals: surrounding blanks, optional sign, digits, at most one ".",
\* at least one digit, at most three fraction digits (the model's precision);
\* anything else raises ValueError.
float_literal(t) ==
    LET signed == t # <<>> /\ t[1] \in {"-", "+"}
        body == IF signed THEN Tail(t) ELSE t
        dots == {i \in 1..Len(body) : body[i] = "."}
        ip == IF dots = {} THEN body
              ELSE SubSeq(body, 1, (CHOOSE i \in dots : TRUE) - 1)
        fp == IF dots = {} THEN <<>>
              ELSE SubSeq(body, (CHOOSE i \in dots : TRUE) + 1, Len(body))
        wellFormed == /\ Cardinality(dots) <= 1
                      /\ \A i \in 1..Len(ip) : IsDigit(ip[i])
                      /\ \A i \in 1..Len(fp) : IsDigit(fp[i])
                      /\ Len(ip) + Len(fp) >= 1
                      /\ Len(fp) <= 3
        mag == DigitsToNat(ip) * Milli + DigitsToNat(fp) * Pow10(3 - Len(fp))
    IN IF ~wellFormed THEN ValueError
       ELSE PyFloat(IF signed /\ t[1] = "-" THEN 0 - mag ELSE mag)

PyFloatOf(s) == float_literal(Strip(s))

EUR == "EUR"

Dash == <<"-">>

parse_currency_to_float(value) ==
    IF ~Truthy(value) \/ value.val = Dash THEN PyNone
    ELSE LET v1 == Strip(RemoveChar(RemoveChar(value.val, EUR), " "))
             v2 == RemoveChar(v1, ".")
             v3 == ReplaceChar(v2, ",", ".")
             f == PyFloatOf(v3)
         IN IF f = ValueError THEN PyNone ELSE f

(***************************************************************************)
(* db_helper.parse_german_number.                                          *)
(***************************************************************************)
\* str.replace(sub, ''): every non-overlapping occurrence, left to right
RECURSIVE RemoveSub(_, _)
RemoveSub(s, sub) ==
    IF Len(s) < Len(sub) THEN s
    ELSE IF SubSeq(s, 1, Len(sub)) = sub THEN RemoveSub(SubSeq(s, Len(sub) + 1, Len(s)), sub)
    ELSE <<Head(s)>> \o RemoveSub(Tail(s), sub)

\* str.replace(c, '', count): the first count occurrences of c removed
RECURSIVE RemoveFirst(_, _, _)
RemoveFirst(s, c, count) ==
    IF s = <<>> \/ count <= 0 THEN s
    ELSE IF Head(s) = c THEN RemoveFirst(Tail(s), c, count - 1)
    ELSE <<Head(s)>> \o RemoveFirst(Tail(s), c, count)

CountChar(s, c) == Cardinality({i \in 1..Len(s) : s[i] = c})

parse_german_number(value) ==
    IF ~Truthy(value) \/ value.val = Dash THEN PyNone
    ELSE LET v1 == Strip(ReplaceChar(RemoveSub(RemoveChar(value.val, "%"),
                                               <<"p", ".", "a", ".">>), ",", "."))
             v2 == IF CountChar(v1, ".") > 1
                   THEN RemoveFirst(v1, ".", CountChar(v1, ".") - 1)
                   ELSE v1
             f == PyFloatOf(v2)
         IN IF f = ValueError THEN PyNone ELSE f

(***************************************************************************)
(* The reference currency rule of the specification (create_chart_view    *)
(* applies its like in SQL): thousands dots are removed only from a text   *)
(* that also has a decimal comma.                                          *)
(***************************************************************************)
reference_currency_rule(value) ==
    IF ~Truthy(value) \/ value.val = Dash THEN PyNone
    ELSE LET v1 == Strip(RemoveChar(RemoveChar(value.val, EUR), " "))
             v2 == IF CountChar(v1, ".") > 0 /\ CountChar(v1, ",") > 0
                   THEN ReplaceChar(RemoveChar(v1, "."), ",", ".")
                   ELSE IF CountChar(v1, ",") > 0 THEN ReplaceChar(v1, ",", ".")
                   ELSE v1
             f == PyFloatOf(v2)
         IN IF f = ValueError THEN PyNone ELSE f

(***************************************************************************)
(* The fixed-period grid of a term.                                        *)
(***************************************************************************)
RECURSIVE fixierung_loop(_, _, _)
fixierung_loop(laufzeit_jahre, current, fixierung_values) ==
    IF current <= laufzeit_jahre
    THEN fixierung_loop(laufzeit_jahre,
                        IF current = 0 THEN 5 ELSE current + 5,
                        Append(fixierung_values, current))
    ELSE fixierung_values

\* mutant: the loop test written "current < laufzeit_jahre"
RECURSIVE fixierung_loop_strict(_, _, _)
fixierung_loop_strict(laufzeit_jahre, current, fixierung_values) ==
    IF current < laufzeit_jahre
    THEN fixierung_loop_strict(laufzeit_jahre,
                               IF current = 0 THEN 5 ELSE current + 5,
                               Append(fixierung_values, current))
    ELSE fixierung_values

get_fixierung_values_strict(laufzeit_jahre) ==
    fixierung_loop_strict(laufzeit_jahre, 0, <<>>)

\* mutant: the grid rounded up to the next slider step above the term
get_fixierung_values_rounded_up(laufzeit_jahre) ==
    fixierung_loop(laufzeit_jahre + 4, 0, <<>>)

get_fixierung_values_for_laufzeit(laufzeit_jahre) ==
    fixierung_loop(laufzeit_jahre, 0, <<>>)

(***************************************************************************)
(* SQLite values and the conversions of the sqlite3 binding.               *)
(* Column affinities are those of the CREATE TABLE statements:             *)
(* TIMESTAMP, DECIMAL and INTEGER columns convert numeric-looking text to  *)
(* a number and integral reals to integers; VARCHAR and TEXT columns       *)
(* convert integers to text.  Foreign keys are declared, and the           *)
(* connections never switch their enforcement on.                          *)
(***************************************************************************)
SqlNull == [kind |-> "NULL", val |-> <<>>]

SqlInteger(n) == [kind |-> "INTEGER", val |-> <<n>>]

SqlReal(m) == [kind |-> "REAL", val |-> <<m>>]

SqlText(s) == [kind |-> "TEXT", val |-> s]

\* datetime.isoformat(" ") of the default adapter, with the clock in ticks:
\* a fixed-width rendering that is not a numeric literal.
isoformat(t) == <<DigitChars[(t \div 10) + 1], DigitChars[(t % 10) + 1], ":", "0", "0">>

RECURSIVE NatToDigits(_)
NatToDigits(n) ==
    IF n < 10 THEN <<DigitChars[n + 1]>>
    ELSE Append(NatToDigits(n \div 10), DigitChars[(n % 10) + 1])

\* binding a Python parameter (None, int, float, str, datetime)
Adapt(v) ==
    CASE v.kind = "None" -> SqlNull
      [] v.kind = "int" -> SqlInteger(v.val[1])
      [] v.kind = "float" -> SqlReal(v.val[1])
      [] v.kind = "str" -> SqlText(v.val)
      [] v.kind = "datetime" -> SqlText(isoformat(v.val[1]))

NumericAffinity(x) ==
    CASE x.kind = "REAL" /\ x.val[1] % Milli = 0 -> SqlInteger(x.val[1] \div Milli)
      [] x.kind = "TEXT" /\ PyFloatOf(x.val) # ValueError ->
            LET m == PyFloatOf(x.val).val[1]
            IN IF m % Milli = 0 THEN SqlInteger(m \div Milli) ELSE SqlReal(m)
      [] OTHER -> x

TextAffinity(x) ==
    CASE x.kind = "INTEGER" /\ x.val[1] >= 0 -> SqlText(NatToDigits(x.val[1]))
      [] OTHER -> x

\* a fetched column value as the Python value sqlite3 returns (no detect_types)
FromSql(x) ==
    CASE x.kind = "NULL" -> PyNone
      [] x.kind = "INTEGER" -> PyInt(x.val[1])
      [] x.kind = "REAL" -> PyFloat(x.val[1])
      [] x.kind = "TEXT" -> PyStr(x.val)

\* dict.get(key, default) on a dict held as a function
Get(d, key, default) == IF key \in DOMAIN d THEN d[key] ELSE default

RunNumericColumns ==
    {"scrape_date", "kreditbetrag", "laufzeit_jahre", "kaufpreis", "kaufnebenkosten",
     "eigenmittel", "haushalt_alter", "haushalt_einkommen", "haushalt_nutzflaeche",
     "haushalt_kreditraten"}

RunColumns == RunNumericColumns \cup {"notes"}

VariationTextColumns ==
    {"zinssatz", "laufzeit", "anschlusskondition", "effektiver_zinssatz", "besicherung"}

VariationNumericColumns ==
    {"fixierung_jahre", "rate", "auszahlungsbetrag", "einberechnete_kosten",
     "kreditbetrag", "gesamtbetrag"}

VariationColumns == VariationTextColumns \cup VariationNumericColumns

\* the parameter tuple of INSERT INTO scraping_runs
RunParameters(metadata, now) ==
    [c \in RunColumns |->
        IF c = "scrape_date" THEN Get(metadata, c, PyDatetime(now))
        ELSE IF c = "notes" THEN Get(metadata, c, PyStr(<<>>))
        ELSE Get(metadata, c, PyNone)]

\* the scraping_runs row INSERT INTO scraping_runs stores under rowid id
insert_scraping_run(metadata, id, now) ==
    [c \in RunColumns \cup {"id"} |->
        IF c = "id" THEN SqlInteger(id)
        ELSE IF c \in RunNumericColumns
             THEN NumericAffinity(Adapt(RunParameters(metadata, now)[c]))
             ELSE TextAffinity(Adapt(RunParameters(metadata, now)[c]))]

\* the fixierung_variations row INSERT INTO fixierung_variations stores
insert_fixierung_variation(run_id, variation_data, id, now) ==
    [c \in VariationColumns \cup {"id", "run_id", "scrape_timestamp"} |->
        IF c = "id" THEN SqlInteger(id)
        ELSE IF c = "run_id" THEN NumericAffinity(Adapt(run_id))
        ELSE IF c = "scrape_timestamp" THEN NumericAffinity(Adapt(PyDatetime(now)))
        ELSE IF c \in VariationNumericColumns
             THEN NumericAffinity(Adapt(Get(variation_data, c, PyNone)))
             ELSE TextAffinity(Adapt(Get(variation_data, c, PyNone)))]

\* mutant: INSERT OR REPLACE under the id of the newest Run
commit_run_replacing(runs, row) ==
    IF runs = <<>> THEN <<row>> ELSE [runs EXCEPT ![Len(runs)] = row]

\* cursor.execute(INSERT INTO scraping_runs ...); conn.commit(): the table
\* after the statement
commit_run(runs, row) == Append(runs, row)

(***************************************************************************)
(* Reading the store.                                                      *)
(***************************************************************************)
\* the characters of timestamps and numbers, in code-point order
Alphabet == <<" ", "+", ",", "-", ".", "0", "1", "2", "3", "4", "5", "6", "7", "8", "9", ":">>

CharRank(c) == CHOOSE i \in 1..Len(Alphabet) : Alphabet[i] = c

RECURSIVE TextLess(_, _)
TextLess(a, b) ==
    IF b = <<>> THEN FALSE
    ELSE IF a = <<>> THEN TRUE
    ELSE IF Head(a) = Head(b) THEN TextLess(Tail(a), Tail(b))
    ELSE CharRank(Head(a)) < CharRank(Head(b))

\* ORDER BY's comparison of two stored values: NULL, then numbers, then text
SqlClass(x) == IF x.kind = "NULL" THEN 0 ELSE IF x.kind = "TEXT" THEN 2 ELSE 1

SqlNumber(x) == IF x.kind = "INTEGER" THEN x.val[1] * Milli ELSE x.val[1]

SqlLess(x, y) ==
    IF SqlClass(x) # SqlClass(y) THEN SqlClass(x) < SqlClass(y)
    ELSE IF SqlClass(x) = 1 THEN SqlNumber(x) < SqlNumber(y)
    ELSE IF SqlClass(x) = 2 THEN TextLess(x.val, y.val)
    ELSE FALSE

\* dict(row): every column as its Python value
RowDict(row) == [c \in DOMAIN row |-> FromSql(row[c])]

Perms(n) == {p \in [1..n -> 1..n] : \A i, j \in 1..n : p[i] = p[j] => i = j}

\* mutant: ORDER BY scrape_date without DESC
get_all_runs_ascending(runs) ==
    {[i \in 1..Len(runs) |-> RowDict(runs[p[i]])] :
        p \in {q \in Perms(Len(runs)) :
                 \A i, j \in 1..Len(runs) :
                    i < j => ~SqlLess(runs[q[j]].scrape_date, runs[q[i]].scrape_date)}}

\* SELECT * FROM scraping_runs ORDER BY scrape_date DESC: every result the
\* query may give (rows with equal scrape_date come in an unspecified order)
get_all_runs(runs) ==
    {[i \in 1..Len(runs) |-> RowDict(runs[p[i]])] :
        p \in {q \in Perms(Len(runs)) :
                 \A i, j \in 1..Len(runs) :
                    i < j => ~SqlLess(runs[q[i]].scrape_date, runs[q[j]].scrape_date)}}

\* mutant: the query without its ORDER BY clause (rows in rowid order)
get_variations_for_run_unordered(rows, run_id) ==
    LET sel == SelectSeq(rows, LAMBDA r : r.run_id = NumericAffinity(Adapt(run_id)))
    IN {[i \in 1..Len(sel) |-> RowDict(sel[i])]}

\* SELECT * FROM fixierung_variations WHERE run_id = ? ORDER BY fixierung_jahre
get_variations_for_run(rows, run_id) ==
    LET sel == SelectSeq(rows, LAMBDA r : r.run_id = NumericAffinity(Adapt(run_id)))
    IN {[i \in 1..Len(sel) |-> RowDict(sel[p[i]])] :
          p \in {q \in Perms(Len(sel)) :
                   \A i, j \in 1..Len(sel) :
                      i < j => ~SqlLess(sel[q[j]].fixierung_jahre, sel[q[i]].fixierung_jahre)}}

(***************************************************************************)
(* generate_html: the latest run of every term.                            *)
(***************************************************************************)
\* Python's < on two scrape_date values read from the store (both str)
PyLess(a, b) == TextLess(a.val, b.val)

\* mutant: sorted without reverse=True (stable, ascending)
RECURSIVE sorted_ascending(_)
sorted_ascending(runs_list) ==
    IF runs_list = <<>> THEN <<>>
    ELSE LET rest == sorted_ascending(Tail(runs_list))
             x == Head(runs_list)
             k == Cardinality({i \in 1..Len(rest) : PyLess(rest[i].scrape_date, x.scrape_date)})
         IN SubSeq(rest, 1, k) \o <<x>> \o SubSeq(rest, k + 1, Len(rest))

\* sorted(runs_list, key=scrape_date, reverse=True): stable, descending
RECURSIVE sorted_reverse(_)
sorted_reverse(runs_list) ==
    IF runs_list = <<>> THEN <<>>
    ELSE LET rest == sorted_reverse(Tail(runs_list))
             x == Head(runs_list)
             \* x goes before the first element that is not greater than it
             k == Cardinality({i \in 1..Len(rest) : PyLess(x.scrape_date, rest[i].scrape_date)})
         IN SubSeq(rest, 1, k) \o <<x>> \o SubSeq(rest, k + 1, Len(rest))

\* runs_by_laufzeit[laufzeit]: the runs of one term, in the order of runs
runs_by_laufzeit(runs, laufzeit) ==
    SelectSeq(runs, LAMBDA r : PyEq(r.laufzeit_jahre, laufzeit))

latest_by_laufzeit(runs) ==
    [laufzeit \in {runs[i].laufzeit_jahre : i \in 1..Len(runs)} |->
        sorted_reverse(runs_by_laufzeit(runs, laufzeit))[1]]

(***************************************************************************)
(* The results panel and its extraction (screen4.scrape_offer_details).    *)
(* A panel is [present, rows, error_at]: rows of [label, value] texts;    *)
(* error_at = k > 0 means that waiting for or reading the panel raises     *)
(* when row k is reached (0: no error).                                    *)
(***************************************************************************)
EmptyDict == [k \in {} |-> PyNone]

Put(d, key, v) == [k \in DOMAIN d \cup {key} |-> IF k = key THEN v ELSE d[k]]

\* label.replace('Anschlusskondition nach Fixzinsphase', 'Anschlusskondition')
clean_label(label) ==
    IF label = "Anschlusskondition nach Fixzinsphase" THEN "Anschlusskondition" ELSE label

RECURSIVE scrape_rows(_, _, _)
scrape_rows(panel, i, details) ==
    IF i > Len(panel.rows) \/ i = panel.error_at THEN details
    ELSE LET label == panel.rows[i].label
             value == Strip(panel.rows[i].value)
         IN scrape_rows(panel, i + 1,
                        IF label # "" /\ value # <<>>
                        THEN Put(details, clean_label(label), PyStr(value))
                        ELSE details)

\* the try block: the mapping built so far, and whether a statement raised
\* (error_at = Len(rows) + 1: the read after the last row raises)
scrape_try(panel) ==
    [details |-> IF ~panel.present THEN EmptyDict ELSE scrape_rows(panel, 1, EmptyDict),
     raised |-> panel.present /\ panel.error_at \in 1..(Len(panel.rows) + 1)]

\* mutant: no except clause, the error leaves scrape_offer_details
scrape_except_reraise(outcome) == outcome

\* except Exception: the error is logged, details is returned as it stands
scrape_except(outcome) == [details |-> outcome.details, raised |-> FALSE]

scrape_offer_details(panel) == scrape_except(scrape_try(panel)).details

\* the variation_data dict screen4 builds from one extraction
variation_data(fixierung, details) ==
    [c \in VariationColumns |->
        CASE c = "fixierung_jahre" -> PyInt(fixierung)
          [] c = "rate" -> parse_currency_to_float(Get(details, "Rate", PyNone))
          [] c = "zinssatz" -> Get(details, "Zinssatz", PyStr(Dash))
          [] c = "laufzeit" -> Get(details, "Laufzeit", PyStr(Dash))
          [] c = "anschlusskondition" -> Get(details, "Anschlusskondition", PyNone)
          [] c = "effektiver_zinssatz" -> Get(details, "Effektiver Zinssatz", PyStr(Dash))
          [] c = "auszahlungsbetrag" ->
                parse_currency_to_float(Get(details, "Auszahlungsbetrag", PyNone))
          [] c = "einberechnete_kosten" ->
                parse_currency_to_float(Get(details, "Einberechnete Kosten", PyNone))
          [] c = "kreditbetrag" -> parse_currency_to_float(Get(details, "Kreditbetrag", PyNone))
          [] c = "gesamtbetrag" ->
                parse_currency_to_float(Get(details, "Zu zahlender Gesamtbetrag", PyNone))
          [] c = "besicherung" -> Get(details, "Besicherung", PyStr(Dash))]

\* mutant: a cell without data is skipped instead of recorded
record_variation_skipping_empty(variations, fixierung, details) ==
    IF details = EmptyDict THEN variations
    ELSE Append(variations, variation_data(fixierung, details))

\* mutant: variations_data.insert(0, variation_data)
record_variation_first(variations, fixierung, details) ==
    <<variation_data(fixierung, details)>> \o variations

\* variations_data.append(variation_data)
record_variation(variations, fixierung, details) ==
    Append(variations, variation_data(fixierung, details))

\* The panel the calculator shows for a cell when it has an offer: the rows of
\* the recorded offers, with the follow-up row only for a fixed period.
PanelAbsent == [present |-> FALSE, rows |-> <<>>, error_at |-> 0]

OfferPanel(laufzeit, fixierung) ==
    LET d == DigitChars[(fixierung \div 5) + 1]
        row(l, v) == [label |-> l, value |-> v]
    IN [present |-> TRUE,
        error_at |-> 0,
        rows |->
          <<row("Rate", <<EUR, " ", "1", ".", "9", "4", d>>),
            row("Zinssatz", <<"3", ",", "0", d, " ", "%">>),
            row("Laufzeit", NatToDigits(laufzeit) \o <<" ", "J">>)>>
          \o (IF fixierung > 0
              THEN <<row("Anschlusskondition nach Fixzinsphase", <<"3", ",", "0", " ", "%">>)>>
              ELSE <<>>)
          \o <<row("Effektiver Zinssatz", <<"3", ",", "2", d, " ", "%">>),
               row("Auszahlungsbetrag", <<EUR, " ", "4", "0", "0", ".", "1", "3", "0">>),
               row("Einberechnete Kosten", <<"6", ".", "3", "7", "0", ",", "5", "0", " ", EUR>>),
               row("Kreditbetrag", <<EUR, " ", "4", "0", "6", ".", "5", "0", "0">>),
               row("Zu zahlender Gesamtbetrag", <<EUR, " ", "5", "8", "4", ".", "3", "3", d>>),
               row("Besicherung", <<"P", "f", "a", "n", "d">>)>>]

(***************************************************************************)
(* mock_test_data: the two datasets of get_mock_data.  Their scrape_date   *)
(* is the time the module was imported (tick 0).                           *)
(***************************************************************************)
mock_variation(percent, rate, zinssatz, laufzeit, anschlusskondition, effektiver_zinssatz, auszahlungsbetrag, einberechnete_kosten, kreditbetrag, gesamtbetrag, besicherung) ==
    [c \in {"verzinsung_percent", "rate", "zinssatz", "laufzeit", "anschlusskondition",
            "effektiver_zinssatz", "auszahlungsbetrag", "einberechnete_kosten",
            "kreditbetrag", "gesamtbetrag", "besicherung"} |->
        CASE c = "verzinsung_percent" -> percent
          [] c = "rate" -> rate
          [] c = "zinssatz" -> zinssatz
          [] c = "laufzeit" -> laufzeit
          [] c = "anschlusskondition" -> anschlusskondition
          [] c = "effektiver_zinssatz" -> effektiver_zinssatz
          [] c = "auszahlungsbetrag" -> auszahlungsbetrag
          [] c = "einberechnete_kosten" -> einberechnete_kosten
          [] c = "kreditbetrag" -> kreditbetrag
          [] c = "gesamtbetrag" -> gesamtbetrag
          [] c = "besicherung" -> besicherung]

mock_scraping_data ==
    [run_metadata |->
        [c \in RunColumns |->
            CASE c = "scrape_date" -> PyDatetime(0)
              [] c = "kreditbetrag" -> PyFloat(500000 * Milli)
              [] c = "laufzeit_jahre" -> PyInt(30)
              [] c = "kaufpreis" -> PyFloat(500000 * Milli)
              [] c = "kaufnebenkosten" -> PyFloat(50000 * Milli)
              [] c = "eigenmittel" -> PyFloat(150000 * Milli)
              [] c = "haushalt_alter" -> PyInt(45)
              [] c = "haushalt_einkommen" -> PyFloat(5200 * Milli)
              [] c = "haushalt_nutzflaeche" -> PyInt(100)
              [] c = "haushalt_kreditraten" -> PyFloat(300 * Milli)
              [] c = "notes" ->
                    PyStr(<<"T", "e", "s", "t", " ", "r", "u", "n", " ", "w", "i", "t",
                          "h", " ", "5", "0", "0", "k", " ", "l", "o", "a", "n", ",",
                          " ", "3", "0", " ", "y", "e", "a", "r", "s">>)],
     verzinsung_variations |->
        <<mock_variation(PyInt(0), PyFloat(1948 * Milli),
                        PyStr(<<"3", ",", "0", "2", "0", " ", "%", " ", "p", ".", "a",
                             ".", " ", "v", "a", "r", "i", "a", "b", "e", "l", " ",
                             "(", "2", "5", " ", "J", "a", "h", "r", "e", ")">>),
                        PyStr(<<"2", "5", " ", "J", "a", "h", "r", "e">>),
                        PyNone,
                        PyStr(<<"3", ",", "2", "4", "0", " ", "%", " ", "p", ".", "a",
                             ".">>),
                        PyFloat(400130 * Milli), PyFloat(6370 * Milli),
                        PyFloat(406500 * Milli), PyFloat(584334 * Milli),
                        PyStr(<<"P", "f", "a", "n", "d", "r", "e", "c", "h", "t">>)),
          mock_variation(PyInt(5), PyFloat(1952 * Milli),
                        PyStr(<<"3", ",", "0", "4", "0", " ", "%", " ", "p", ".", "a",
                             ".", " ", "f", "i", "x", " ", "(", "5", " ", "J", "a",
                             "h", "r", "e", ")">>),
                        PyStr(<<"2", "5", " ", "J", "a", "h", "r", "e">>),
                        PyStr(<<"3", ",", "0", "2", "0", " ", "%", " ", "p", ".", "a",
                             ".", " ", "v", "a", "r", "i", "a", "b", "e", "l", " ",
                             "(", "2", "0", " ", "J", "a", "h", "r", "e", ")">>),
                        PyStr(<<"3", ",", "2", "6", "0", " ", "%", " ", "p", ".", "a",
                             ".">>),
                        PyFloat(400130 * Milli), PyFloat(6370 * Milli),
                        PyFloat(406500 * Milli), PyFloat(585626 * Milli),
                        PyStr(<<"P", "f", "a", "n", "d", "r", "e", "c", "h", "t">>)),
          mock_variation(PyInt(10), PyFloat(2009 * Milli),
                        PyStr(<<"3", ",", "3", "0", "0", " ", "%", " ", "p", ".", "a",
                             ".", " ", "f", "i", "x", " ", "(", "1", "0", " ", "J",
                             "a", "h", "r", "e", ")">>),
                        PyStr(<<"2", "5", " ", "J", "a", "h", "r", "e">>),
                        PyStr(<<"3", ",", "0", "2", "0", " ", "%", " ", "p", ".", "a",
                             ".", " ", "v", "a", "r", "i", "a", "b", "e", "l", " ",
                             "(", "1", "5", " ", "J", "a", "h", "r", "e", ")">>),
                        PyStr(<<"3", ",", "5", "2", "5", " ", "%", " ", "p", ".", "a",
                             ".">>),
                        PyFloat(400130 * Milli), PyFloat(6370 * Milli),
                        PyFloat(406500 * Milli), PyFloat(602571 * Milli),
                        PyStr(<<"P", "f", "a", "n", "d", "r", "e", "c", "h", "t">>)),
          mock_variation(PyInt(15), PyFloat(2075 * Milli),
                        PyStr(<<"3", ",", "6", "0", "0", " ", "%", " ", "p", ".", "a",
                             ".", " ", "f", "i", "x", " ", "(", "1", "5", " ", "J",
                             "a", "h", "r", "e", ")">>),
                        PyStr(<<"2", "5", " ", "J", "a", "h", "r", "e">>),
                        PyStr(<<"3", ",", "0", "2", "0", " ", "%", " ", "p", ".", "a",
                             ".", " ", "v", "a", "r", "i", "a", "b", "e", "l", " ",
                             "(", "1", "0", " ", "J", "a", "h", "r", "e", ")">>),
                        PyStr(<<"3", ",", "8", "3", "1", " ", "%", " ", "p", ".", "a",
                             ".">>),
                        PyFloat(400130 * Milli), PyFloat(6370 * Milli),
                        PyFloat(406500 * Milli), PyFloat(622462 * Milli),
                        PyStr(<<"P", "f", "a", "n", "d", "r", "e", "c", "h", "t">>)),
          mock_variation(PyInt(20), PyFloat(2086 * Milli),
                        PyStr(<<"3", ",", "6", "5", "0", " ", "%", " ", "p", ".", "a",
                             ".", " ", "f", "i", "x", " ", "(", "2", "0", " ", "J",
                             "a", "h", "r", "e", ")">>),
                        PyStr(<<"2", "5", " ", "J", "a", "h", "r", "e">>),
                        PyStr(<<"3", ",", "0", "2", "0", " ", "%", " ", "p", ".", "a",
                             ".", " ", "v", "a", "r", "i", "a", "b", "e", "l", " ",
                             "(", "5", " ", "J", "a", "h", "r", "e", ")">>),
                        PyStr(<<"3", ",", "8", "8", "2", " ", "%", " ", "p", ".", "a",
                             ".">>),
                        PyFloat(400130 * Milli), PyFloat(6370 * Milli),
                        PyFloat(406500 * Milli), PyFloat(625812 * Milli),
                        PyStr(<<"P", "f", "a", "n", "d", "r", "e", "c", "h", "t">>)),
          mock_variation(PyInt(25), PyNone,
                        PyStr(<<"-">>),
                        PyStr(<<"-">>),
                        PyStr(<<"-">>),
                        PyStr(<<"-">>),
                        PyNone, PyNone,
                        PyNone, PyNone,
                        PyStr(<<"-">>))>>]

mock_scraping_data_2 ==
    [run_metadata |->
        [c \in RunColumns |->
            CASE c = "scrape_date" -> PyDatetime(0)
              [] c = "kreditbetrag" -> PyFloat(300000 * Milli)
              [] c = "laufzeit_jahre" -> PyInt(25)
              [] c = "kaufpreis" -> PyFloat(300000 * Milli)
              [] c = "kaufnebenkosten" -> PyFloat(30000 * Milli)
              [] c = "eigenmittel" -> PyFloat(80000 * Milli)
              [] c = "haushalt_alter" -> PyInt(45)
              [] c = "haushalt_einkommen" -> PyFloat(5200 * Milli)
              [] c = "haushalt_nutzflaeche" -> PyInt(100)
              [] c = "haushalt_kreditraten" -> PyFloat(300 * Milli)
              [] c = "notes" ->
                    PyStr(<<"T", "e", "s", "t", " ", "r", "u", "n", " ", "w", "i", "t",
                          "h", " ", "3", "0", "0", "k", " ", "l", "o", "a", "n", ",",
                          " ", "2", "5", " ", "y", "e", "a", "r", "s">>)],
     verzinsung_variations |->
        <<mock_variation(PyInt(0), PyFloat(1236 * Milli),
                        PyStr(<<"3", ",", "1", "2", "0", " ", "%", " ", "p", ".", "a",
                             ".", " ", "v", "a", "r", "i", "a", "b", "e", "l", " ",
                             "(", "2", "5", " ", "J", "a", "h", "r", "e", ")">>),
                        PyStr(<<"2", "5", " ", "J", "a", "h", "r", "e">>),
                        PyNone,
                        PyStr(<<"3", ",", "3", "6", "6", " ", "%", " ", "p", ".", "a",
                             ".">>),
                        PyFloat(250391 * Milli), PyFloat(4109 * Milli),
                        PyFloat(254500 * Milli), PyFloat(370677 * Milli),
                        PyStr(<<"P", "f", "a", "n", "d", "r", "e", "c", "h", "t">>)),
          mock_variation(PyInt(5), PyFloat(1238 * Milli),
                        PyStr(<<"3", ",", "1", "4", "0", " ", "%", " ", "p", ".", "a",
                             ".", " ", "f", "i", "x", " ", "(", "5", " ", "J", "a",
                             "h", "r", "e", ")">>),
                        PyStr(<<"2", "5", " ", "J", "a", "h", "r", "e">>),
                        PyStr(<<"3", ",", "1", "2", "0", " ", "%", " ", "p", ".", "a",
                             ".", " ", "v", "a", "r", "i", "a", "b", "e", "l", " ",
                             "(", "2", "0", " ", "J", "a", "h", "r", "e", ")">>),
                        PyStr(<<"3", ",", "3", "8", "6", " ", "%", " ", "p", ".", "a",
                             ".">>),
                        PyFloat(250391 * Milli), PyFloat(4109 * Milli),
                        PyFloat(254500 * Milli), PyFloat(371491 * Milli),
                        PyStr(<<"P", "f", "a", "n", "d", "r", "e", "c", "h", "t">>))>>]

get_mock_data(dataset) ==
    IF dataset = 1 THEN mock_scraping_data
    ELSE IF dataset = 2 THEN mock_scraping_data_2
    ELSE ValueError

(***************************************************************************)
(* save_scraping_data on the store db = [tables_exist, scraping_runs,      *)
(* fixierung_variations, now].  fail names the statement that raises:      *)
(* <<"none", 0>>, <<"create_database", 0>>, <<"insert_scraping_run", 0>>   *)
(* or <<"insert_fixierung_variation", k>> for the k-th variation.  Every   *)
(* insert commits on its own connection.                                   *)
(***************************************************************************)
NoFailure == <<"none", 0>>

\* for variation in data['fixierung_variations']: the list the loop runs
\* over; without the key the subscript raises KeyError and nothing is looped
loop_variations(data) ==
    IF "fixierung_variations" \in DOMAIN data THEN data.fixierung_variations ELSE <<>>

FailPoints(data) ==
    {NoFailure, <<"create_database", 0>>, <<"insert_scraping_run", 0>>}
    \cup {<<"insert_fixierung_variation", k>> : k \in 1..Len(loop_variations(data))}

\* mutant: the variations written in one transaction, rolled back on an error
committed_variations_rolled_back(variations, fail) ==
    IF fail = NoFailure THEN Len(variations) ELSE 0

\* the variations insert_fixierung_variation has committed, each on its own
\* connection, when the loop ends or the fail[2]-th insert raises
committed_variations(variations, fail) ==
    IF fail = NoFailure THEN Len(variations) ELSE fail[2] - 1

save_scraping_data(db, data, fail) ==
    IF fail[1] = "create_database" THEN [db |-> db, raised |-> TRUE, run_id |-> 0]
    ELSE IF fail[1] = "insert_scraping_run"
    THEN [db |-> [db EXCEPT !.tables_exist = TRUE], raised |-> TRUE, run_id |-> 0]
    ELSE LET run_id == Len(db.scraping_runs) + 1
             variations == loop_variations(data)
             n == committed_variations(variations, fail)
             first == Len(db.fixierung_variations)
         IN [db |-> [tables_exist |-> TRUE,
                     scraping_runs |->
                        commit_run(db.scraping_runs,
                                   insert_scraping_run(data.run_metadata, run_id, db.now)),
                     fixierung_variations |->
                        db.fixierung_variations \o
                        [i \in 1..n |->
                            insert_fixierung_variation(PyInt(run_id), variations[i],
                                                       first + i, db.now + i)],
                     now |-> db.now + 1 + n],
             raised |-> fail # NoFailure \/ "fixierung_variations" \notin DOMAIN data,
             run_id |-> run_id]

(***************************************************************************)
(* swap_data_fetcher.py: the SWAP rate cache of fetch_all_rates.  A date   *)
(* is [year, month] (the day and the time of day play no part), a period   *)
(* "YYYY-MM" is <<year, month>>, a rates dictionary maps periods to the    *)
(* source its month entry came from.  The cache file is                    *)
(* [state, data]: "missing", "unreadable" (json.load raises) or "json".    *)
(***************************************************************************)
SwapPeriods == {<<2024, 11>>, <<2024, 12>>, <<2025, 1>>}

\* returns the file's JSON value, {} when open or json.load raises
load_manual_swap_rates(file) ==
    IF file.state = "json" THEN file.data ELSE <<>>

\* the periods from start_date's month through end_date's month, in order
_get_required_periods(start_date, end_date) ==
    LET end_of_end_month ==
            IF end_date.month = 12
            THEN [year |-> end_date.year + 1, month |-> 1]
            ELSE [year |-> end_date.year, month |-> end_date.month + 1]
        before(a, b) == a.year < b.year \/ (a.year = b.year /\ a.month < b.month)
        RECURSIVE loop(_, _)
        loop(current, periods) ==
            IF ~before(current, end_of_end_month) THEN periods
            ELSE loop(IF current.month = 12
                      THEN [year |-> current.year + 1, month |-> 1]
                      ELSE [year |-> current.year, month |-> current.month + 1],
                      Append(periods, <<current.year, current.month>>))
    IN loop(start_date, <<>>)

\* mutant: only the newest required period is looked up in the cache
_check_cache_coverage_newest(cached_rates, required_periods) ==
    LET missing_periods ==
            IF required_periods = <<>> THEN {}
            ELSE {required_periods[Len(required_periods)]} \ DOMAIN cached_rates
    IN [is_complete |-> missing_periods = {}, missing_periods |-> missing_periods]

\* (is_complete, missing_periods); the missing periods are kept as a set
_check_cache_coverage(cached_rates, required_periods) ==
    LET missing_periods ==
            {required_periods[i] : i \in DOMAIN required_periods} \ DOMAIN cached_rates
    IN [is_complete |-> missing_periods = {}, missing_periods |-> missing_periods]

\* fetch_all_rates from the smart caching logic to the cache update.
\* sparkasse and investing are what the two fetch_swap_rates calls do when
\* they are made: [raises, rates].  The result holds swap_rates, the
\* fetch_swap_rates calls made, the cache file afterwards and the number of
\* save_swap_rates_to_manual calls.
fetch_all_rates(start_date, end_date, file, force_api, sparkasse, investing) ==
    LET use_cache == ~force_api /\ file.state # "missing"
        cached_swap_rates == IF use_cache THEN load_manual_swap_rates(file) ELSE <<>>
        coverage == _check_cache_coverage(cached_swap_rates,
                                          _get_required_periods(start_date, end_date))
        needs_fetch ==
            IF use_cache
            THEN IF DOMAIN cached_swap_rates # {} THEN ~coverage.is_complete ELSE TRUE
            ELSE TRUE
        update(a, b) ==
            [p \in DOMAIN a \cup DOMAIN b |-> IF p \in DOMAIN b THEN b[p] ELSE a[p]]
        api_calls ==
            IF ~needs_fetch THEN <<>>
            ELSE IF sparkasse.raises \/ DOMAIN sparkasse.rates # {} THEN <<"sparkasse">>
            ELSE <<"sparkasse", "investing">>
        swap_rates ==
            IF ~needs_fetch \/ sparkasse.raises THEN cached_swap_rates
            ELSE IF DOMAIN sparkasse.rates # {} THEN update(cached_swap_rates, sparkasse.rates)
            ELSE IF investing.raises THEN cached_swap_rates
            ELSE update(cached_swap_rates, investing.rates)
        saved == needs_fetch /\ DOMAIN swap_rates # {}
    IN [swap_rates |-> swap_rates,
        api_calls |-> api_calls,
        file |-> IF saved THEN [state |-> "json", data |-> swap_rates] ELSE file,
        writes |-> IF saved THEN 1 ELSE 0]

(***************************************************************************)
(* State.                                                                  *)
(***************************************************************************)
VARIABLES
    pc,                     \* position of main()/run()/screen4(), or "store"
    laufzeiten_to_scrape,   \* the session's configured term list
    browser,                \* "none", "open" or "closed"
    context,                \* "none", "open" or "closed"
    exc,                    \* an exception is propagating out of run()
    li,                     \* index of the term being swept
    fi,                     \* index of the grid value being swept
    fixierung_values,       \* grid of the term being swept
    panel,                  \* results panel the page shows
    details,                \* last mapping returned by scrape_offer_details
    variations_data,        \* variations of the term being swept
    all_data_by_laufzeit,   \* <<[laufzeit, variations]>> in insertion order
    si,                     \* index of the term being saved
    save_log,               \* one entry per save_scraping_data call of run()
    tables_exist,           \* the store's tables have been created
    scraping_runs,          \* rows of scraping_runs, in rowid order
    fixierung_variations,   \* rows of fixierung_variations, in rowid order
    now,                    \* the clock, in ticks
    faults,                 \* recoverable faults injected so far
    slider_warned,          \* a slider set has failed and was logged
    scraped,                \* cells <<laufzeit, fixierung>> extracted with an offer
    last_call,              \* the store API call made last
    wizard,                 \* progress of the wizard screens' field applications
    results,                \* whether the results screen came up: "unknown", "reached", "never"
    extractions,            \* calls of scrape_offer_details for the cell being swept
    previous_details,       \* the mapping extracted for the previous cell
    value,                  \* the text given to a number normalizer
    parsed,                 \* what the normalizer returned for it
    calls,                  \* the calls run() and screen4() have made, in order
    manual_swap_file,       \* swap_rates_manual.json, the SWAP rate cache
    last_fetch              \* the fetch_all_rates call made last

vars ==
    <<pc, laufzeiten_to_scrape, browser, context, exc, li, fi, fixierung_values, panel,
      details, variations_data, all_data_by_laufzeit, si, save_log, tables_exist,
      scraping_runs, fixierung_variations, now, faults, slider_warned, scraped, last_call,
      wizard, results, extractions, previous_details, value, parsed, calls,
      manual_swap_file, last_fetch>>

normalizer_vars == <<value, parsed>>

fetch_vars == <<manual_swap_file, last_fetch>>

extraction_vars == <<results, extractions, previous_details>>

session_vars ==
    <<laufzeiten_to_scrape, browser, context, exc, li, fi, fixierung_values, panel,
      details, variations_data, all_data_by_laufzeit, si, save_log, faults,
      slider_warned, scraped>>

store_vars == <<tables_exist, scraping_runs, fixierung_variations, now>>

sweep_vars == <<li, fi, fixierung_values, panel, details, variations_data,
                all_data_by_laufzeit>>

db == [tables_exist |-> tables_exist, scraping_runs |-> scraping_runs,
       fixierung_variations |-> fixierung_variations, now |-> now]

NoCall ==
    [op |-> "none", data |-> EmptyDict, fail |-> NoFailure, raised |-> FALSE, run_id |-> 0]

NoFetch ==
    [op |-> "none", force_api |-> FALSE, start_date |-> [year |-> 0, month |-> 0],
     end_date |-> [year |-> 0, month |-> 0], cached |-> [state |-> "missing", data |-> <<>>],
     swap_rates |-> <<>>, api_calls |-> <<>>, writes |-> 0]

(***************************************************************************)
(* The wizard screens' fields.  set_select_like on a page whose behaviour  *)
(* b says, per strategy, whether applying it raises and what the read-back *)
(* (_verify_selection) then shows.                                         *)
(***************************************************************************)
SelectResult(returned, verified, strategy) ==
    [returned |-> returned, verified |-> verified, strategy |-> strategy]

NoSelect == SelectResult(FALSE, FALSE, "not called")

SelectBehaviours ==
    [accessible : {"selects", "raises"},
     label : BOOLEAN,
     tile : {"absent", "raises", "unverified", "verified"},
     native : {"absent", "raises", "unverified", "verified"},
     trigger : {"raises", "unverified", "verified"},
     direct : {"raises", "unverified", "verified"}]

\* the except branch: the option is clicked by its text, then verified
select_last_resort(b) ==
    IF b.direct = "verified" THEN SelectResult(TRUE, TRUE, "direct")
    ELSE SelectResult(FALSE, FALSE, "none")

set_select_like(b) ==
    IF b.accessible = "selects" THEN SelectResult(TRUE, FALSE, "accessible")
    ELSE IF ~b.label \/ b.tile = "raises" THEN select_last_resort(b)
    ELSE IF b.tile = "verified" THEN SelectResult(TRUE, TRUE, "tile/radio")
    ELSE IF b.native = "verified" THEN SelectResult(TRUE, TRUE, "native")
    ELSE IF b.trigger = "raises" THEN select_last_resort(b)
    ELSE IF b.trigger = "verified" THEN SelectResult(TRUE, TRUE, "fallback")
    ELSE SelectResult(FALSE, FALSE, "none")

\* one strategy that was attempted, and whether it set the field
Try(strategy, succeeded) == [strategy |-> strategy, succeeded |-> succeeded]

\* mutant: the option's text is clicked first, then the accessible select
strategies_tried_text_first(b) ==
    <<Try("direct", b.direct = "verified"), Try("accessible", b.accessible = "selects")>>

\* the strategies set_select_like attempts on a page of behaviour b, in the
\* order of their attempts (a tile or native select that is not there is
\* not attempted; the except branch is entered from a raising statement)
strategies_tried(b) ==
    IF b.accessible = "selects" THEN <<Try("accessible", TRUE)>>
    ELSE LET accessible == <<Try("accessible", FALSE)>>
             tile == IF b.tile = "absent" THEN <<>>
                     ELSE <<Try("tile/radio", b.tile = "verified")>>
             native == IF b.native = "absent" THEN <<>>
                       ELSE <<Try("native", b.native = "verified")>>
             trigger == <<Try("fallback", b.trigger = "verified")>>
             direct == <<Try("direct", b.direct = "verified")>>
         IN IF ~b.label THEN accessible \o direct
            ELSE IF b.tile = "raises" THEN accessible \o tile \o direct
            ELSE IF b.tile = "verified" THEN accessible \o tile
            ELSE IF b.native = "verified" THEN accessible \o tile \o native
            ELSE IF b.trigger = "raises"
                 THEN accessible \o tile \o native \o trigger \o direct
            ELSE accessible \o tile \o native \o trigger

\* screen2's select by id for Finanzierungsvorhaben: select_option, then the
\* read-back of option:checked / input_value decides success_fv
IdSelectOutcomes == {"raises", "unverified", "verified"}

select_by_id(outcome) ==
    SelectResult(outcome = "verified", outcome = "verified", "id")

Field(name, kind) == [name |-> name, kind |-> kind]

Screen1Fields == <<Field("Kreditbetrag", "number"), Field("Laufzeit", "number")>>

Screen2Fields ==
    <<Field("Finanzierungsvorhaben", "required select"), Field("Suchphase", "select"),
      Field("Art der Immobilie", "select"), Field("Immobilie in Bau", "select"),
      Field("Lage der Immobilie", "select"), Field("Nutzung", "select"),
      Field("Kaufpreis", "number"), Field("Kaufnebenkosten", "number"),
      Field("Eigenmittel", "number")>>

Screen3Fields ==
    <<Field("Ihr Alter", "number"), Field("Finanzierung mit zweiter Person", "radio"),
      Field("Anzahl unterhaltspflichtiger Kinder", "select"),
      Field("Ihre berufliche Situation", "select"), Field("Ihr Netto-Einkommen", "number"),
      Field("Wohnnutzflaeche", "number"), Field("Kredit-/Leasingraten", "number"),
      Field("Anzahl der KFZ", "select")>>

ScreenFields == <<Screen1Fields, Screen2Fields, Screen3Fields>>

\* mutant: a field that could not be set ends the screen, whatever the field
after_failed_field_return(field) == "return"

\* what a screen does when no strategy could set a field: screen2 returns
\* when it is Finanzierungsvorhaben, everything else goes on to the next field
after_failed_field(field) ==
    IF field.kind = "required select" THEN "return" ELSE "continue"

WizardIdle ==
    [screen |-> 0, field |-> 0, applied |-> {}, failed |-> {}, clicked |-> {},
     returned_early |-> {}, select |-> NoSelect, by_id |-> NoSelect, tried |-> <<>>]

(***************************************************************************)
(* Configured term lists: terms in descending order, as run() lists them.  *)
(***************************************************************************)
Laufzeiten == {t \in 1..MaxLaufzeit : t % 5 \in {0, 3}}

TermLists ==
    {l \in UNION {[1..n -> Laufzeiten] : n \in 1..MaxTerms} :
        \A i \in 1..(Len(l) - 1) : l[i] > l[i + 1]}

base_metadata ==
    [c \in {"kreditbetrag", "kaufpreis", "kaufnebenkosten", "eigenmittel", "haushalt_alter",
            "haushalt_einkommen", "haushalt_nutzflaeche", "haushalt_kreditraten"} |->
        CASE c = "kreditbetrag" -> PyFloat(500000 * Milli)
          [] c = "kaufpreis" -> PyFloat(500000 * Milli)
          [] c = "kaufnebenkosten" -> PyFloat(50000 * Milli)
          [] c = "eigenmittel" -> PyFloat(150000 * Milli)
          [] c = "haushalt_alter" -> PyInt(45)
          [] c = "haushalt_einkommen" -> PyFloat(8500 * Milli)
          [] c = "haushalt_nutzflaeche" -> PyInt(100)
          [] c = "haushalt_kreditraten" -> PyFloat(300 * Milli)]

\* mutant: the loan amount entered per term as well
run_metadata_per_term(laufzeit, t) ==
    Put(Put(Put(Put(base_metadata, "kreditbetrag", PyFloat(laufzeit * 10000 * Milli)),
                "scrape_date", PyDatetime(t)),
            "laufzeit_jahre", PyInt(laufzeit)),
        "notes", PyStr(<<"S", "4", " ">> \o NatToDigits(laufzeit) \o <<" ", "J">>))

\* run_metadata of one term in run()'s save loop
run_metadata(laufzeit, t) ==
    Put(Put(Put(base_metadata, "scrape_date", PyDatetime(t)),
            "laufzeit_jahre", PyInt(laufzeit)),
        "notes", PyStr(<<"S", "4", " ">> \o NatToDigits(laufzeit) \o <<" ", "J">>))

SessionInit ==
    /\ browser = "none"
    /\ context = "none"
    /\ exc = FALSE
    /\ li = 0
    /\ fi = 0
    /\ fixierung_values = <<>>
    /\ panel = PanelAbsent
    /\ details = EmptyDict
    /\ variations_data = <<>>
    /\ all_data_by_laufzeit = <<>>
    /\ si = 0
    /\ save_log = <<>>
    /\ faults = 0
    /\ slider_warned = FALSE
    /\ scraped = {}
    /\ wizard = WizardIdle
    /\ results = "unknown"
    /\ extractions = 0
    /\ previous_details = EmptyDict
    /\ value = PyNone
    /\ parsed = PyNone
    /\ calls = <<>>
    /\ manual_swap_file = [state |-> "missing", data |-> <<>>]
    /\ last_fetch = NoFetch

StoreInit ==
    /\ tables_exist = FALSE
    /\ scraping_runs = <<>>
    /\ fixierung_variations = <<>>
    /\ now = 0
    /\ last_call = NoCall

Init ==
    /\ pc = "launch"
    /\ laufzeiten_to_scrape \in TermLists
    /\ SessionInit
    /\ StoreInit

(***************************************************************************)
(* run(): acquiring the browser session (before the try block).            *)
(***************************************************************************)
Launch ==
    /\ pc = "launch"
    /\ \/ browser' = "open" /\ pc' = "new_context" /\ exc' = FALSE
       \/ browser' = browser /\ pc' = "raised" /\ exc' = TRUE
    /\ UNCHANGED <<wizard, extraction_vars, normalizer_vars, fetch_vars, calls, laufzeiten_to_scrape, context, sweep_vars, si, save_log, faults,
                   slider_warned, scraped, store_vars, last_call>>

NewContext ==
    /\ pc = "new_context"
    /\ \/ context' = "open" /\ pc' = "new_page" /\ exc' = FALSE
       \/ context' = context /\ pc' = "raised" /\ exc' = TRUE
    /\ UNCHANGED <<wizard, extraction_vars, normalizer_vars, fetch_vars, calls, laufzeiten_to_scrape, browser, sweep_vars, si, save_log, faults,
                   slider_warned, scraped, store_vars, last_call>>

NewPage ==
    /\ pc = "new_page"
    /\ \/ pc' = "screen1" /\ exc' = FALSE
       \/ pc' = "raised" /\ exc' = TRUE
    /\ UNCHANGED <<wizard, extraction_vars, normalizer_vars, fetch_vars, calls, laufzeiten_to_scrape, browser, context, sweep_vars, si, save_log,
                   faults, slider_warned, scraped, store_vars, last_call>>

(***************************************************************************)
(* run(): the try block.  A screen either returns or raises (page.goto    *)
(* and the screenshots are not guarded); an exception goes to finally.     *)
(***************************************************************************)
Call(op, arg) == [op |-> op, arg |-> arg]

\* mutant: run() without its call of screen2
after_screen_skipping(this) ==
    CASE this = "screen1" -> "screen3"
      [] this = "screen2" -> "screen3"
      [] this = "screen3" -> "screen4"

\* the call run() makes after a screen has returned
after_screen(this) ==
    CASE this = "screen1" -> "screen2"
      [] this = "screen2" -> "screen3"
      [] this = "screen3" -> "screen4"

Screen(this, next) ==
    /\ pc = this
    /\ calls' = Append(calls, Call(this, 0))
    /\ \/ pc' = next /\ exc' = FALSE
       \/ pc' = "finally" /\ exc' = TRUE
    /\ UNCHANGED <<wizard, extraction_vars, normalizer_vars, fetch_vars, laufzeiten_to_scrape, browser, context, sweep_vars, si, save_log,
                   faults, slider_warned, scraped, store_vars, last_call>>

Screen1 == Screen("screen1", after_screen("screen1"))

Screen2 == Screen("screen2", after_screen("screen2"))

Screen3 == Screen("screen3", after_screen("screen3"))

\* screen4's waits for the results: timeouts are swallowed (whether or not
\* the results came up), other errors raise
Screen4Wait ==
    /\ pc = "screen4"
    /\ \/ /\ pc' = "set_laufzeit" /\ li' = 1 /\ exc' = FALSE
          /\ results' \in {"reached", "never"}
       \/ pc' = "finally" /\ li' = li /\ exc' = TRUE /\ results' = results
    /\ calls' = Append(calls, Call("screen4", 0))
    /\ UNCHANGED <<wizard, extractions, previous_details, normalizer_vars, fetch_vars, laufzeiten_to_scrape, browser, context, fi, fixierung_values, panel,
                   details, variations_data, all_data_by_laufzeit, si, save_log, faults,
                   slider_warned, scraped, store_vars, last_call>>

\* set_laufzeit_slider (errors are logged), then the term's grid
SetLaufzeit ==
    /\ pc = "set_laufzeit"
    /\ \E ok \in BOOLEAN : slider_warned' = (slider_warned \/ ~ok)
    /\ fixierung_values' = get_fixierung_values_for_laufzeit(laufzeiten_to_scrape[li])
    /\ variations_data' = <<>>
    /\ fi' = 1
    /\ pc' = "set_fixierung"
    /\ calls' = Append(calls, Call("set_laufzeit_slider", laufzeiten_to_scrape[li]))
    /\ UNCHANGED <<wizard, extraction_vars, normalizer_vars, fetch_vars, laufzeiten_to_scrape, browser, context, exc, li, panel, details,
                   all_data_by_laufzeit, si, save_log, faults, scraped, store_vars,
                   last_call>>

\* all_data_by_laufzeit[laufzeit] = variations_data
store_term(all_data, laufzeit, variations) ==
    IF \E i \in 1..Len(all_data) : all_data[i].laufzeit = laufzeit
    THEN [i \in 1..Len(all_data) |->
            IF all_data[i].laufzeit = laufzeit
            THEN [laufzeit |-> laufzeit, variations |-> variations]
            ELSE all_data[i]]
    ELSE Append(all_data, [laufzeit |-> laufzeit, variations |-> variations])

\* the end of a term's loop body and the step to the next term
TermDone ==
    /\ pc = "term_done"
    /\ all_data_by_laufzeit' =
          store_term(all_data_by_laufzeit, laufzeiten_to_scrape[li], variations_data)
    /\ IF li < Len(laufzeiten_to_scrape)
       THEN li' = li + 1 /\ pc' = "set_laufzeit"
       ELSE li' = li /\ pc' = "final_screenshot"
    /\ UNCHANGED <<wizard, extraction_vars, normalizer_vars, fetch_vars, calls, laufzeiten_to_scrape, browser, context, exc, fi, fixierung_values,
                   panel, details, variations_data, si, save_log, faults, slider_warned,
                   scraped, store_vars, last_call>>

\* mutant: the extraction directly after the slider call
after_set_fixierung_scrape == "scrape"

\* what the cell's loop body does after set_fixierung_slider has returned,
\* whether the set succeeded or its error was logged: time.sleep(1)
after_set_fixierung == "settle"

\* set_fixierung_slider (errors are logged)
SetFixierung ==
    /\ pc = "set_fixierung"
    /\ IF fi > Len(fixierung_values)
       THEN /\ pc' = "term_done" /\ slider_warned' = slider_warned
            /\ extractions' = extractions /\ calls' = calls
       ELSE /\ \E ok \in BOOLEAN : slider_warned' = (slider_warned \/ ~ok)
            /\ pc' = after_set_fixierung
            /\ extractions' = 0
            /\ calls' = Append(calls, Call("set_fixierung_slider", fixierung_values[fi]))
    /\ UNCHANGED <<wizard, results, previous_details, normalizer_vars, fetch_vars, laufzeiten_to_scrape, browser, context, exc, sweep_vars, si, save_log,
                   faults, scraped, store_vars, last_call>>

\* time.sleep(1): the page has rendered what it has for the cell: its offer,
\* no panel, or still the panel it showed before; no panel at all when the
\* results screen never came up
Settle ==
    /\ pc = "settle"
    /\ IF results = "never"
       THEN panel' = PanelAbsent /\ faults' = faults
       ELSE \/ panel' = OfferPanel(laufzeiten_to_scrape[li], fixierung_values[fi])
               /\ faults' = faults
            \/ faults < MaxFaults /\ panel' = PanelAbsent /\ faults' = faults + 1
            \/ faults < MaxFaults /\ panel' = panel /\ faults' = faults + 1
    /\ pc' = "scrape"
    /\ calls' = Append(calls, Call("time.sleep", 1))
    /\ UNCHANGED <<wizard, extraction_vars, normalizer_vars, fetch_vars, laufzeiten_to_scrape, browser, context, exc, li, fi, fixierung_values,
                   details, variations_data, all_data_by_laufzeit, si, save_log,
                   slider_warned, scraped, store_vars, last_call>>

Scrape ==
    /\ pc = "scrape"
    /\ LET outcome == scrape_except(scrape_try(panel))
       IN /\ details' = outcome.details
          /\ pc' = IF outcome.raised THEN "finally" ELSE "record"
          /\ exc' = outcome.raised
    /\ extractions' = extractions + 1
    /\ previous_details' = details
    /\ calls' = Append(calls, Call("scrape_offer_details", 0))
    /\ UNCHANGED <<wizard, results, normalizer_vars, fetch_vars, laufzeiten_to_scrape, browser, context, li, fi, fixierung_values,
                   panel, variations_data, all_data_by_laufzeit, si, save_log, faults,
                   slider_warned, scraped, store_vars, last_call>>

Record ==
    /\ pc = "record"
    /\ variations_data' = record_variation(variations_data, fixierung_values[fi], details)
    /\ scraped' = IF details # EmptyDict
                  THEN scraped \cup {<<laufzeiten_to_scrape[li], fixierung_values[fi]>>}
                  ELSE scraped
    /\ pc' = "screenshot"
    /\ UNCHANGED <<wizard, extraction_vars, normalizer_vars, fetch_vars, calls, laufzeiten_to_scrape, browser, context, exc, li, fi, fixierung_values,
                   panel, details, all_data_by_laufzeit, si, save_log, faults,
                   slider_warned, store_vars, last_call>>

\* the cell's page.screenshot, which is not guarded
Screenshot ==
    /\ pc = "screenshot"
    /\ \/ pc' = "set_fixierung" /\ fi' = fi + 1 /\ exc' = FALSE
       \/ pc' = "finally" /\ fi' = fi /\ exc' = TRUE
    /\ UNCHANGED <<wizard, extraction_vars, normalizer_vars, fetch_vars, calls, laufzeiten_to_scrape, browser, context, li, fixierung_values, panel,
                   details, variations_data, all_data_by_laufzeit, si, save_log, faults,
                   slider_warned, scraped, store_vars, last_call>>

FinalScreenshot ==
    /\ pc = "final_screenshot"
    /\ \/ pc' = "save" /\ si' = 1 /\ exc' = FALSE
       \/ pc' = "finally" /\ si' = si /\ exc' = TRUE
    /\ UNCHANGED <<wizard, extraction_vars, normalizer_vars, fetch_vars, calls, laufzeiten_to_scrape, browser, context, sweep_vars, save_log, faults,
                   slider_warned, scraped, store_vars, last_call>>

(***************************************************************************)
(* run(): the save loop, the finally block, and main().                    *)
(***************************************************************************)
\* mutant: no except clause around save_scraping_data
on_save_error_propagate == "propagate"

\* what run() does with an exception of save_scraping_data: the except
\* clause logs it and the loop goes on
on_save_error == "continue"

Save ==
    /\ pc = "save"
    /\ IF si > Len(all_data_by_laufzeit)
       THEN /\ pc' = "finally"
            /\ UNCHANGED <<si, save_log, faults, store_vars, exc>>
       ELSE \E fail \in FailPoints([fixierung_variations |->
                                      all_data_by_laufzeit[si].variations]) :
              LET item == all_data_by_laufzeit[si]
                  scraping_data == [run_metadata |-> run_metadata(item.laufzeit, now),
                                    fixierung_variations |-> item.variations]
                  r == save_scraping_data([db EXCEPT !.now = now + 1], scraping_data, fail)
              IN /\ fail # NoFailure => faults < MaxFaults
                 /\ faults' = IF fail = NoFailure THEN faults ELSE faults + 1
                 /\ tables_exist' = r.db.tables_exist
                 /\ scraping_runs' = r.db.scraping_runs
                 /\ fixierung_variations' = r.db.fixierung_variations
                 /\ now' = r.db.now
                 /\ save_log' = Append(save_log, [laufzeit |-> item.laufzeit,
                                                  raised |-> r.raised,
                                                  run_id |-> r.run_id])
                 /\ IF r.raised /\ on_save_error # "continue"
                    THEN pc' = "finally" /\ exc' = TRUE /\ si' = si
                    ELSE pc' = "save" /\ exc' = exc /\ si' = si + 1
    /\ UNCHANGED <<wizard, extraction_vars, normalizer_vars, fetch_vars, calls, laufzeiten_to_scrape, browser, context, sweep_vars, slider_warned,
                   scraped, last_call>>

\* finally: context.close(); browser.close()
Finally ==
    /\ pc = "finally"
    /\ context' = "closed"
    /\ browser' = "closed"
    /\ pc' = IF exc THEN "raised" ELSE "returned"
    /\ UNCHANGED <<wizard, extraction_vars, normalizer_vars, fetch_vars, calls, laufzeiten_to_scrape, exc, sweep_vars, si, save_log, faults,
                   slider_warned, scraped, store_vars, last_call>>

\* main(): run() has returned or raised; the with block stops Playwright
\* and main returns 0 or 1
Main ==
    /\ pc \in {"returned", "raised"}
    /\ pc' = IF pc = "returned" THEN "exit0" ELSE "exit1"
    /\ UNCHANGED <<wizard, extraction_vars, normalizer_vars, fetch_vars, calls, laufzeiten_to_scrape, browser, context, exc, sweep_vars, si, save_log,
                   faults, slider_warned, scraped, store_vars, last_call>>

Next ==
    \/ Launch
    \/ NewContext
    \/ NewPage
    \/ Screen1
    \/ Screen2
    \/ Screen3
    \/ Screen4Wait
    \/ SetLaufzeit
    \/ SetFixierung
    \/ Settle
    \/ Scrape
    \/ Record
    \/ Screenshot
    \/ TermDone
    \/ FinalScreenshot
    \/ Save
    \/ Finally
    \/ Main

Spec == Init /\ [][Next]_vars

(***************************************************************************)
(* The store API called directly (StoreSpec): create_database,             *)
(* insert_scraping_run, insert_fixierung_variation and save_scraping_data  *)
(* in any order, on inputs of the kinds the callers pass (numbers or None  *)
(* for numeric columns, str or None for text columns, datetime or no key   *)
(* for scrape_date).                                                       *)
(***************************************************************************)
\* an explicit scrape_date, between defaulted ones
ExplicitTick == 2

MetadataInputs ==
    {run_metadata(10, ExplicitTick),
     [c \in {"laufzeit_jahre"} |-> PyInt(10)],
     [c \in {"laufzeit_jahre", "scrape_date", "kaufpreis"} |->
        CASE c = "laufzeit_jahre" -> PyInt(5)
          [] c = "scrape_date" -> PyDatetime(ExplicitTick + 1)
          [] c = "kaufpreis" -> PyFloat(1948500)]}

VariationInputs ==
    {variation_data(0, scrape_offer_details(OfferPanel(10, 0))),
     variation_data(5, EmptyDict)}

\* run ids passed to insert_fixierung_variation
RunIdInputs == {1, 2}

VariationListInputs ==
    {<<variation_data(5, EmptyDict)>>,
     <<variation_data(5, scrape_offer_details(OfferPanel(10, 5))),
       variation_data(0, scrape_offer_details(OfferPanel(10, 0)))>>}

\* the dicts passed to save_scraping_data: what run() builds, and the
\* datasets of get_mock_data (test_db_import)
DataInputs ==
    {[run_metadata |-> metadata, fixierung_variations |-> variations] :
        metadata \in MetadataInputs, variations \in VariationListInputs}
    \cup {get_mock_data(1), get_mock_data(2)}

StoreSpecInit ==
    /\ pc = "store"
    /\ laufzeiten_to_scrape = <<>>
    /\ SessionInit
    /\ StoreInit

CreateDatabase ==
    /\ pc = "store"
    /\ tables_exist' = TRUE
    /\ last_call' = NoCall
    /\ UNCHANGED <<wizard, extraction_vars, normalizer_vars, fetch_vars, calls, pc, session_vars, scraping_runs, fixierung_variations, now>>

\* without the tables the INSERT raises (no such table) and stores nothing
InsertScrapingRun ==
    /\ pc = "store"
    /\ Len(scraping_runs) + Len(fixierung_variations) < MaxRecords
    /\ \E metadata \in MetadataInputs :
          IF tables_exist
          THEN /\ scraping_runs' =
                     commit_run(scraping_runs,
                                insert_scraping_run(metadata, Len(scraping_runs) + 1, now))
               /\ now' = now + 1
          ELSE UNCHANGED <<scraping_runs, now>>
    /\ last_call' = NoCall
    /\ UNCHANGED <<wizard, extraction_vars, normalizer_vars, fetch_vars, calls, pc, session_vars, tables_exist, fixierung_variations>>

InsertFixierungVariation ==
    /\ pc = "store"
    /\ Len(scraping_runs) + Len(fixierung_variations) < MaxRecords
    /\ \E run_id \in RunIdInputs, variation \in VariationInputs :
          IF tables_exist
          THEN /\ fixierung_variations' =
                     Append(fixierung_variations,
                            insert_fixierung_variation(PyInt(run_id), variation,
                                                       Len(fixierung_variations) + 1, now))
               /\ now' = now + 1
          ELSE UNCHANGED <<fixierung_variations, now>>
    /\ last_call' = NoCall
    /\ UNCHANGED <<wizard, extraction_vars, normalizer_vars, fetch_vars, calls, pc, session_vars, tables_exist, scraping_runs>>

SaveScrapingData ==
    /\ pc = "store"
    /\ \E data \in DataInputs :
          /\ Len(scraping_runs) + Len(fixierung_variations) + 1 + Len(loop_variations(data))
                <= MaxRecords
          /\ \E fail \in FailPoints(data) :
                LET r == save_scraping_data(db, data, fail)
                IN /\ tables_exist' = r.db.tables_exist
                   /\ scraping_runs' = r.db.scraping_runs
                   /\ fixierung_variations' = r.db.fixierung_variations
                   /\ now' = IF fail[1] \in {"create_database", "insert_scraping_run"}
                             THEN now ELSE r.db.now
                   /\ last_call' = [op |-> "save_scraping_data", data |-> data,
                                    fail |-> fail, raised |-> r.raised,
                                    run_id |-> r.run_id]
    /\ UNCHANGED <<wizard, extraction_vars, normalizer_vars, fetch_vars, calls, pc, session_vars>>

StoreNext ==
    \/ CreateDatabase
    \/ InsertScrapingRun
    \/ InsertFixierungVariation
    \/ SaveScrapingData

StoreSpec == StoreSpecInit /\ [][StoreNext]_vars

(***************************************************************************)
(* scrape_offer_details called on any panel (ExtractSpec): rows with       *)
(* canonical, synonym, unknown or empty labels, empty values, and an error *)
(* at any point of the extraction.                                         *)
(***************************************************************************)
RowInputs ==
    {[label |-> l, value |-> v] :
        l \in {"Rate", "Anschlusskondition nach Fixzinsphase", "Sondertilgung", ""},
        v \in {<<"3", ",", "0", " ", "%">>, <<" ">>}}

PanelInputs ==
    {PanelAbsent}
    \cup {[present |-> TRUE, rows |-> r, error_at |-> e] :
             r \in UNION {[1..n -> RowInputs] : n \in 0..MaxPanelRows},
             e \in 0..(MaxPanelRows + 1)}

ExtractInit ==
    /\ pc = "extract"
    /\ laufzeiten_to_scrape = <<>>
    /\ panel \in {q \in PanelInputs : q.error_at <= Len(q.rows) + 1}
    /\ browser = "none"
    /\ context = "none"
    /\ exc = FALSE
    /\ li = 0
    /\ fi = 0
    /\ fixierung_values = <<>>
    /\ details = EmptyDict
    /\ variations_data = <<>>
    /\ all_data_by_laufzeit = <<>>
    /\ si = 0
    /\ save_log = <<>>
    /\ faults = 0
    /\ slider_warned = FALSE
    /\ scraped = {}
    /\ wizard = WizardIdle
    /\ results = "unknown"
    /\ extractions = 0
    /\ previous_details = EmptyDict
    /\ value = PyNone
    /\ parsed = PyNone
    /\ calls = <<>>
    /\ manual_swap_file = [state |-> "missing", data |-> <<>>]
    /\ last_fetch = NoFetch
    /\ StoreInit

\* details = scrape_offer_details()
Extract ==
    /\ pc = "extract"
    /\ LET outcome == scrape_except(scrape_try(panel))
       IN /\ details' = outcome.details
          /\ exc' = outcome.raised
    /\ pc' = "extracted"
    /\ UNCHANGED <<wizard, extraction_vars, normalizer_vars, fetch_vars, calls, laufzeiten_to_scrape, browser, context, li, fi, fixierung_values,
                   panel, variations_data, all_data_by_laufzeit, si, save_log, faults,
                   slider_warned, scraped, store_vars, last_call>>

ExtractNext == Extract

ExtractSpec == ExtractInit /\ [][ExtractNext]_vars

(***************************************************************************)
(* The wizard screens field by field (WizardSpec): screen1, screen2 and    *)
(* screen3 in turn, every field either set by one of its strategies or by  *)
(* none, the screenshots and page.goto free to raise.                      *)
(***************************************************************************)
WizardInit ==
    /\ pc = "goto"
    /\ laufzeiten_to_scrape = <<>>
    /\ SessionInit
    /\ StoreInit

wizard_unchanged ==
    UNCHANGED <<extraction_vars, normalizer_vars, fetch_vars, calls, laufzeiten_to_scrape, browser, context, sweep_vars, si, save_log, faults,
                slider_warned, scraped, store_vars, last_call>>

\* screen1: page.goto, which is not guarded
Goto ==
    /\ pc = "goto"
    /\ \/ /\ pc' = "fields"
          /\ wizard' = [wizard EXCEPT !.screen = 1, !.field = 1]
          /\ exc' = FALSE
       \/ pc' = "wizard raised" /\ wizard' = wizard /\ exc' = TRUE
    /\ wizard_unchanged

\* the record of one field's application
applied_field(ok, select, by_id) ==
    LET cell == <<wizard.screen, wizard.field>>
        field == ScreenFields[wizard.screen][wizard.field]
        w == [wizard EXCEPT !.applied = @ \cup {cell},
                            !.failed = IF ok THEN @ ELSE @ \cup {cell},
                            !.select = select,
                            !.by_id = by_id]
    IN IF ~ok /\ after_failed_field(field) = "return"
       THEN [w EXCEPT !.returned_early = @ \cup {wizard.screen}]
       ELSE [w EXCEPT !.field = @ + 1]

\* one way a field's application can go: whether the field was set, the
\* results of set_select_like and of the select by id, the strategies tried
Attempt(ok, select, by_id, tried) ==
    [ok |-> ok, select |-> select, by_id |-> by_id, tried |-> tried]

\* a select is set by its id, and when that fails by set_select_like; an
\* input or radio by its id or by its label fallbacks
FieldAttempts(field) ==
    IF field.kind = "required select"
    THEN {Attempt(TRUE, NoSelect, select_by_id("verified"), <<Try("id", TRUE)>>)}
         \cup {Attempt(set_select_like(b).returned, set_select_like(b), select_by_id(o),
                       <<Try("id", FALSE)>> \o strategies_tried(b)) :
                  o \in IdSelectOutcomes \ {"verified"}, b \in SelectBehaviours}
    ELSE IF field.kind = "select"
    THEN {Attempt(TRUE, NoSelect, NoSelect, <<Try("id", TRUE)>>)}
         \cup {Attempt(set_select_like(b).returned, set_select_like(b), NoSelect,
                       <<Try("id", FALSE)>> \o strategies_tried(b)) :
                  b \in SelectBehaviours}
    ELSE {Attempt(ok, NoSelect, NoSelect, <<>>) : ok \in BOOLEAN}

\* the next field of the screen is applied
ApplyField ==
    /\ pc = "fields"
    /\ wizard.field <= Len(ScreenFields[wizard.screen])
    /\ \E attempt \in FieldAttempts(ScreenFields[wizard.screen][wizard.field]) :
          LET w == applied_field(attempt.ok, attempt.select, attempt.by_id)
          IN /\ Cardinality(w.failed) <= MaxFieldFailures
             /\ wizard' = [w EXCEPT !.tried = attempt.tried]
             /\ pc' = IF wizard.screen \in w.returned_early THEN "next screen" ELSE "fields"
    /\ exc' = exc
    /\ wizard_unchanged

\* the screen's screenshot after its last field, which is not guarded
WizardScreenshot ==
    /\ pc = "fields"
    /\ wizard.field > Len(ScreenFields[wizard.screen])
    /\ \/ pc' = "click" /\ exc' = FALSE
       \/ pc' = "wizard raised" /\ exc' = TRUE
    /\ wizard' = wizard
    /\ wizard_unchanged

\* the loop over the button names: a click is attempted, errors are skipped
ClickContinue ==
    /\ pc = "click"
    /\ wizard' = [wizard EXCEPT !.clicked = @ \cup {wizard.screen}]
    /\ pc' = "next screen"
    /\ exc' = exc
    /\ wizard_unchanged

\* the screen has returned and run() calls the next one; screen2 starts with
\* a debug screenshot when its markers are not visible, which is not guarded
NextScreen ==
    /\ pc = "next screen"
    /\ \/ /\ wizard.screen < Len(ScreenFields)
          /\ wizard' = [wizard EXCEPT !.screen = @ + 1, !.field = 1,
                                      !.select = NoSelect, !.by_id = NoSelect,
                                      !.tried = <<>>]
          /\ pc' = "fields"
          /\ exc' = exc
       \/ /\ wizard.screen = 1
          /\ wizard' = [wizard EXCEPT !.screen = 2, !.field = 0]
          /\ pc' = "wizard raised"
          /\ exc' = TRUE
       \/ /\ wizard.screen = Len(ScreenFields)
          /\ wizard' = wizard
          /\ pc' = "wizard done"
          /\ exc' = exc
    /\ wizard_unchanged

WizardNext ==
    \/ Goto
    \/ ApplyField
    \/ WizardScreenshot
    \/ ClickContinue
    \/ NextScreen

WizardSpec == WizardInit /\ [][WizardNext]_vars

(***************************************************************************)
(* The number normalizers called on any text (ParseSpec): digits, ".",     *)
(* ",", "-", blanks and the currency sign, or None.                        *)
(***************************************************************************)
ValueChars == {"1", "5", ".", ",", "-", " ", EUR}

ValueInputs ==
    {PyNone} \cup {PyStr(t) : t \in UNION {[1..n -> ValueChars] : n \in 0..MaxValueLen}}

ParseInit ==
    /\ pc = "parse"
    /\ laufzeiten_to_scrape = <<>>
    /\ browser = "none"
    /\ context = "none"
    /\ exc = FALSE
    /\ li = 0
    /\ fi = 0
    /\ fixierung_values = <<>>
    /\ panel = PanelAbsent
    /\ details = EmptyDict
    /\ variations_data = <<>>
    /\ all_data_by_laufzeit = <<>>
    /\ si = 0
    /\ save_log = <<>>
    /\ faults = 0
    /\ slider_warned = FALSE
    /\ scraped = {}
    /\ wizard = WizardIdle
    /\ results = "unknown"
    /\ extractions = 0
    /\ previous_details = EmptyDict
    /\ value \in ValueInputs
    /\ parsed = PyNone
    /\ calls = <<>>
    /\ manual_swap_file = [state |-> "missing", data |-> <<>>]
    /\ last_fetch = NoFetch
    /\ StoreInit

parse_unchanged ==
    UNCHANGED <<laufzeiten_to_scrape, browser, context, exc, sweep_vars, si, save_log,
                faults, slider_warned, scraped, store_vars, last_call, wizard,
                extraction_vars, value, calls, fetch_vars>>

ParseCurrency ==
    /\ pc = "parse"
    /\ parsed' = parse_currency_to_float(value)
    /\ pc' = "parsed currency"
    /\ parse_unchanged

ParseGermanNumber ==
    /\ pc = "parse"
    /\ parsed' = parse_german_number(value)
    /\ pc' = "parsed german number"
    /\ parse_unchanged

ParseNext ==
    \/ ParseCurrency
    \/ ParseGermanNumber

ParseSpec == ParseInit /\ [][ParseNext]_vars

(***************************************************************************)
(* fetch_all_rates called on any cache file, date range and fetcher        *)
(* behaviour, any number of times (FetchSpec).                             *)
(***************************************************************************)
FetchInit ==
    /\ pc = "fetch"
    /\ laufzeiten_to_scrape = <<>>
    /\ browser = "none"
    /\ context = "none"
    /\ exc = FALSE
    /\ li = 0
    /\ fi = 0
    /\ fixierung_values = <<>>
    /\ panel = PanelAbsent
    /\ details = EmptyDict
    /\ variations_data = <<>>
    /\ all_data_by_laufzeit = <<>>
    /\ si = 0
    /\ save_log = <<>>
    /\ faults = 0
    /\ slider_warned = FALSE
    /\ scraped = {}
    /\ last_call = NoCall
    /\ wizard = WizardIdle
    /\ results = "unknown"
    /\ extractions = 0
    /\ previous_details = EmptyDict
    /\ value = PyNone
    /\ parsed = PyNone
    /\ calls = <<>>
    /\ StoreInit
    /\ manual_swap_file \in
          {[state |-> "missing", data |-> <<>>], [state |-> "unreadable", data |-> <<>>]}
          \cup {[state |-> "json", data |-> [p \in S |-> "manual"]] : S \in SUBSET SwapPeriods}
    /\ last_fetch = NoFetch

\* one call of fetch_all_rates; a fetcher raises, returns nothing or returns
\* the months up to the latest one it has; InvestingComFetcher is consulted
\* only when SparkasseFetcher returned nothing
FetchAllRates ==
    /\ pc = "fetch"
    /\ LET dates == {[year |-> p[1], month |-> p[2]] : p \in SwapPeriods}
           upto(latest) ==
               {p \in SwapPeriods :
                   p[1] < latest[1] \/ (p[1] = latest[1] /\ p[2] <= latest[2])}
           outcomes(source) ==
               {[raises |-> TRUE, rates |-> <<>>], [raises |-> FALSE, rates |-> <<>>]}
               \cup {[raises |-> FALSE, rates |-> [p \in upto(latest) |-> source]] :
                       latest \in SwapPeriods}
       IN \E force_api \in BOOLEAN, start_date \in dates, end_date \in dates,
             sparkasse \in outcomes("sparkasse") :
             \E investing \in IF sparkasse.raises \/ DOMAIN sparkasse.rates # {}
                              THEN {[raises |-> TRUE, rates |-> <<>>]}
                              ELSE outcomes("investing") :
                LET fetched == fetch_all_rates(start_date, end_date, manual_swap_file,
                                               force_api, sparkasse, investing)
                IN /\ manual_swap_file' = fetched.file
                   /\ last_fetch' =
                         [op |-> "fetch_all_rates", force_api |-> force_api,
                          start_date |-> start_date, end_date |-> end_date,
                          cached |-> manual_swap_file, swap_rates |-> fetched.swap_rates,
                          api_calls |-> fetched.api_calls, writes |-> fetched.writes]
    /\ UNCHANGED <<pc, session_vars, store_vars, last_call, wizard, extraction_vars,
                   normalizer_vars, calls>>

FetchNext == FetchAllRates

FetchSpec == FetchInit /\ [][FetchNext]_vars

(***************************************************************************)
(* Claims about the sweep session (Spec).                                  *)
(***************************************************************************)
Exited == pc \in {"returned", "raised", "exit0", "exit1"}

\* C1: for every Run the session saved (save_scraping_data returned its id),
\* get_variations_for_run returns exactly as many rows as the grid generated
\* for the Run's term has values, whichever cells failed slider setting or
\* extraction.
C1_RowsEqualGrid ==
    \A k \in 1..Len(save_log) :
        ~save_log[k].raised =>
            LET read == get_variations_for_run(fixierung_variations,
                                               PyInt(save_log[k].run_id))
            IN /\ read # {}
               /\ \A result \in read :
                     Len(result) =
                        Len(get_fixierung_values_for_laufzeit(save_log[k].laufzeit))

\* a session ended with a saved Run of a grid of several cells, one of them
\* a cell without data, after a slider failure
C1_Witness ==
    /\ pc = "exit0"
    /\ slider_warned
    /\ \E k \in 1..Len(save_log) :
          /\ ~save_log[k].raised
          /\ Len(get_fixierung_values_for_laufzeit(save_log[k].laufzeit)) >= 2
          /\ \E i \in 1..Len(fixierung_variations) :
                /\ fixierung_variations[i].run_id = SqlInteger(save_log[k].run_id)
                /\ fixierung_variations[i].rate = SqlNull

\* C2: every stored variation row refers to a stored Run whose laufzeit_jahre
\* is not below the row's fixierung_jahre.
C2_FixierungWithinLaufzeit ==
    \A i \in 1..Len(fixierung_variations) :
        \E j \in 1..Len(scraping_runs) :
            /\ scraping_runs[j].id = fixierung_variations[i].run_id
            /\ ~SqlLess(scraping_runs[j].laufzeit_jahre,
                        fixierung_variations[i].fixierung_jahre)

\* a stored row whose fixed period equals its Run's term (the boundary)
C2_Witness ==
    \E i \in 1..Len(fixierung_variations), j \in 1..Len(scraping_runs) :
        /\ scraping_runs[j].id = fixierung_variations[i].run_id
        /\ scraping_runs[j].laufzeit_jahre = fixierung_variations[i].fixierung_jahre
        /\ fixierung_variations[i].fixierung_jahre # SqlInteger(0)

Sweeping == pc \in {"set_fixierung", "settle", "scrape", "record", "screenshot", "term_done"}

\* C3: the grid generated for the term T being swept is the ascending list
\* 0, 5, 10, ... of all multiples of 5 that are <= T (just <<0>> when T < 5).
C3_GridIsMultiplesOfFive ==
    Sweeping =>
        LET T == laufzeiten_to_scrape[li]
        IN /\ Len(fixierung_values) = (T \div 5) + 1
           /\ \A i \in 1..Len(fixierung_values) : fixierung_values[i] = 5 * (i - 1)
           /\ \A i \in 1..Len(fixierung_values) : fixierung_values[i] <= T
           /\ \A m \in 0..T : m % 5 = 0 =>
                 \E i \in 1..Len(fixierung_values) : fixierung_values[i] = m

\* the grid of a term below 5 has been generated after that of a multiple of 5
C3_Witness ==
    /\ pc = "term_done"
    /\ li = 2
    /\ laufzeiten_to_scrape[1] % 5 = 0
    /\ laufzeiten_to_scrape[2] < 5
    /\ fixierung_values = <<0>>

\* C4: when the session has ended, every cell that was extracted with an
\* offer is stored as a variation row of a Run of its term.
C4_ScrapedCellsPersisted ==
    pc \in {"exit0", "exit1"} =>
        \A cell \in scraped :
            \E i \in 1..Len(fixierung_variations), j \in 1..Len(scraping_runs) :
                /\ scraping_runs[j].id = fixierung_variations[i].run_id
                /\ scraping_runs[j].laufzeit_jahre = SqlInteger(cell[1])
                /\ fixierung_variations[i].fixierung_jahre = SqlInteger(cell[2])
                /\ fixierung_variations[i].rate # SqlNull

\* C5: once the save loop has been entered, run() ends by returning, with one
\* save attempted for every term of all_data_by_laufzeit, in order, whatever
\* saves raised.
C5_SaveLoopContinues ==
    (Exited /\ si >= 1) =>
        /\ pc \in {"returned", "exit0"}
        /\ Len(save_log) = Len(all_data_by_laufzeit)
        /\ \A k \in 1..Len(save_log) :
              save_log[k].laufzeit = all_data_by_laufzeit[k].laufzeit

\* a save raised and the save of a later term succeeded
C5_Witness ==
    /\ pc = "exit0"
    /\ \E j, k \in 1..Len(save_log) :
          j < k /\ save_log[j].raised /\ ~save_log[k].raised

\* C6: whenever run() has been left with the browser launched, the context
\* and the browser have been closed.
C6_SessionClosedOnExit ==
    (Exited /\ browser # "none") => (context = "closed" /\ browser = "closed")

\* C8: the variation recorded from an empty mapping has the cell's grid value,
\* every numeric field None and every descriptive text field "-".
C8_EmptyMappingVariation ==
    (pc = "screenshot" /\ details = EmptyDict) =>
        LET v == variations_data[Len(variations_data)]
        IN /\ v["fixierung_jahre"] = PyInt(fixierung_values[fi])
           /\ \A c \in VariationNumericColumns \ {"fixierung_jahre"} : v[c] = PyNone
           /\ \A c \in VariationTextColumns : v[c] = PyStr(Dash)

(***************************************************************************)
(* Claims about the store API and the report's map (StoreSpec).            *)
(***************************************************************************)
\* C7: every fixierung_variations row's run_id is the id of a stored
\* scraping_runs row.
C7_ForeignKeyEnforced ==
    \A i \in 1..Len(fixierung_variations) :
        \E j \in 1..Len(scraping_runs) :
            scraping_runs[j].id = fixierung_variations[i].run_id

\* C9: for every result of the runs query, latest_by_laufzeit has exactly the
\* distinct laufzeit_jahre values of the stored Runs as its keys, and each
\* entry is a stored Run of that term whose scrape_date no Run of the term
\* exceeds.
C9_LatestRunPerTerm ==
    \A runs \in get_all_runs(scraping_runs) :
        LET latest == latest_by_laufzeit(runs)
            stored == {runs[i] : i \in 1..Len(runs)}
        IN /\ DOMAIN latest = {r.laufzeit_jahre : r \in stored}
           /\ \A laufzeit \in DOMAIN latest :
                 /\ latest[laufzeit] \in stored
                 /\ latest[laufzeit].laufzeit_jahre = laufzeit
                 /\ \A r \in stored :
                       r.laufzeit_jahre = laufzeit =>
                          ~PyLess(latest[laufzeit].scrape_date, r.scrape_date)

\* two Runs of one term are stored, the one inserted later with the earlier
\* scrape_date
C9_Witness ==
    \E i, j \in 1..Len(scraping_runs) :
        /\ i < j
        /\ scraping_runs[i].laufzeit_jahre = scraping_runs[j].laufzeit_jahre
        /\ SqlLess(scraping_runs[j].scrape_date, scraping_runs[i].scrape_date)

Saved == last_call.op = "save_scraping_data" /\ ~last_call.raised

\* the variations read back are the written ones, field for field, in some
\* pairing of the two lists
SameVariations(read, written) ==
    /\ Len(read) = Len(written)
    /\ \E p \in Perms(Len(written)) :
          \A i \in 1..Len(written) :
             \A c \in VariationColumns :
                PyEq(read[i][c], Get(written[p[i]], c, PyNone))

\* C10 as stated: right after save_scraping_data has returned, the Run read
\* back under the returned id carries every written metadata value and
\* get_variations_for_run returns the written Variations and nothing else.
C10_RoundTripExact ==
    Saved =>
        /\ \A runs \in get_all_runs(scraping_runs) :
              \E i \in 1..Len(runs) :
                 /\ runs[i].id = PyInt(last_call.run_id)
                 /\ \A c \in DOMAIN last_call.data.run_metadata :
                       PyEq(runs[i][c], last_call.data.run_metadata[c])
        /\ \A read \in get_variations_for_run(fixierung_variations,
                                              PyInt(last_call.run_id)) :
              SameVariations(read, last_call.data.fixierung_variations)

\* C11: for every run id, every result of get_variations_for_run holds each
\* stored row of that run id exactly once and no other row, in non-decreasing
\* fixierung_jahre order.
C11_VariationsOfRunOrdered ==
    \A run_id \in RunIdInputs :
        \A result \in get_variations_for_run(fixierung_variations, PyInt(run_id)) :
            LET stored == {i \in 1..Len(fixierung_variations) :
                              fixierung_variations[i].run_id = SqlInteger(run_id)}
            IN /\ Len(result) = Cardinality(stored)
               /\ {result[k].id : k \in 1..Len(result)} = {PyInt(i) : i \in stored}
               /\ \A k \in 1..Len(result) :
                     result[k] = RowDict(fixierung_variations[result[k].id.val[1]])
               /\ \A k \in 1..(Len(result) - 1) :
                     result[k].fixierung_jahre.val[1] <= result[k + 1].fixierung_jahre.val[1]

\* two rows of one run id were inserted in descending fixierung_jahre order,
\* with a row of another run id stored as well
C11_Witness ==
    \E i, j, k \in 1..Len(fixierung_variations) :
        /\ i < j
        /\ fixierung_variations[i].run_id = fixierung_variations[j].run_id
        /\ SqlLess(fixierung_variations[j].fixierung_jahre,
                   fixierung_variations[i].fixierung_jahre)
        /\ fixierung_variations[k].run_id # fixierung_variations[i].run_id

\* C12: every result of get_all_runs holds every stored Run exactly once,
\* and of two consecutive Runs the first has a scrape_date not below the
\* second's.
C12_RunsNewestFirst ==
    \A result \in get_all_runs(scraping_runs) :
        /\ Len(result) = Len(scraping_runs)
        /\ {result[k].id : k \in 1..Len(result)} = {PyInt(i) : i \in 1..Len(scraping_runs)}
        /\ \A k \in 1..Len(result) :
              result[k] = RowDict(scraping_runs[result[k].id.val[1]])
        /\ \A k \in 1..(Len(result) - 1) :
              ~PyLess(result[k].scrape_date, result[k + 1].scrape_date)

\* three Runs are stored whose insertion order is neither newest-first nor
\* oldest-first
C12_Witness ==
    /\ Len(scraping_runs) = 3
    /\ SqlLess(scraping_runs[1].scrape_date, scraping_runs[2].scrape_date)
    /\ SqlLess(scraping_runs[3].scrape_date, scraping_runs[2].scrape_date)

\* C21: no step of the store's operations removes a scraping_runs row or
\* changes a field of one: the rows stored before the step are the first
\* rows after it, unchanged.
C21_RunRowsNeverChange ==
    [][/\ Len(scraping_runs') >= Len(scraping_runs)
       /\ \A i \in 1..Len(scraping_runs) : scraping_runs'[i] = scraping_runs[i]]_vars

\* a Run was stored, and after it a Variation and a second Run by a
\* save_scraping_data that returned
C21_Witness ==
    /\ Saved
    /\ Len(scraping_runs) = 2
    /\ last_call.run_id = 2
    /\ fixierung_variations # <<>>

\* C23: when save_scraping_data was called on a dataset of get_mock_data and
\* no statement of the store failed, it returned a run id, get_all_runs holds
\* that Run, and get_variations_for_run gives one row per variation of the
\* dataset, with the variation's sweep-parameter value and rate.
C23_MockDataImports ==
    (/\ last_call.op = "save_scraping_data"
     /\ last_call.fail = NoFailure
     /\ last_call.data \in {get_mock_data(1), get_mock_data(2)}) =>
        /\ ~last_call.raised
        /\ \A runs \in get_all_runs(scraping_runs) :
              \E i \in 1..Len(runs) : runs[i].id = PyInt(last_call.run_id)
        /\ \A read \in get_variations_for_run(fixierung_variations,
                                              PyInt(last_call.run_id)) :
              LET written == last_call.data.verzinsung_variations
              IN /\ Len(read) = Len(written)
                 /\ \E p \in Perms(Len(written)) :
                       \A i \in 1..Len(written) :
                          /\ PyEq(read[i].fixierung_jahre, written[p[i]].verzinsung_percent)
                          /\ PyEq(read[i].rate, written[p[i]].rate)

\* C30: a save_scraping_data whose k-th variation insert raises adds the Run
\* row and the rows of the first k-1 variations, in the order of the list,
\* to the rows stored before, and the exception reaches the caller.
C30_PartialSaveStays ==
    [][(/\ last_call'.op = "save_scraping_data"
        /\ last_call'.fail[1] = "insert_fixierung_variation") =>
          LET k == last_call'.fail[2]
              data == last_call'.data
              run_id == Len(scraping_runs) + 1
              first == Len(fixierung_variations)
          IN /\ last_call'.raised
             /\ scraping_runs' =
                   Append(scraping_runs, insert_scraping_run(data.run_metadata, run_id, now))
             /\ Len(fixierung_variations') = first + k - 1
             /\ SubSeq(fixierung_variations', 1, first) = fixierung_variations
             /\ \A i \in 1..(k - 1) :
                   LET row == fixierung_variations'[first + i]
                   IN /\ row.run_id = SqlInteger(run_id)
                      /\ \A c \in VariationColumns :
                            PyEq(FromSql(row[c]),
                                 Get(data.fixierung_variations[i], c, PyNone))]_vars

\* the insert of the second of two variations raised: the Run and the first
\* variation are stored
C30_Witness ==
    /\ last_call.op = "save_scraping_data"
    /\ last_call.fail = <<"insert_fixierung_variation", 2>>
    /\ last_call.raised
    /\ Len(scraping_runs) = 1
    /\ Len(fixierung_variations) = 1
    /\ fixierung_variations[1].run_id = scraping_runs[1].id

(***************************************************************************)
(* Claims about the extraction (ExtractSpec).                              *)
(***************************************************************************)
Vocabulary ==
    {"Rate", "Zinssatz", "Laufzeit", "Anschlusskondition", "Effektiver Zinssatz",
     "Auszahlungsbetrag", "Einberechnete Kosten", "Kreditbetrag",
     "Zu zahlender Gesamtbetrag", "Besicherung"}

\* C13: every key of the mapping scrape_offer_details returned is a name of
\* the canonical field vocabulary.
C13_KeysInVocabulary ==
    pc = "extracted" => DOMAIN details \subseteq Vocabulary

\* the rows of the panel that were read before the error, if any
RowsRead(q) ==
    IF q.error_at = 0 THEN q.rows ELSE SubSeq(q.rows, 1, q.error_at - 1)

\* C14: scrape_offer_details has returned, not raised; for an absent panel
\* the mapping is empty; otherwise it holds exactly the rows read before the
\* error (all rows when there was none) that have a label and a value.
C14_ExtractionNeverRaises ==
    pc = "extracted" =>
        /\ ~exc
        /\ ~panel.present => details = EmptyDict
        /\ panel.present =>
              /\ \A k \in DOMAIN details :
                    \E i \in 1..Len(RowsRead(panel)) :
                       /\ clean_label(RowsRead(panel)[i].label) = k
                       /\ Strip(RowsRead(panel)[i].value) # <<>>
              /\ \A i \in 1..Len(RowsRead(panel)) :
                    (RowsRead(panel)[i].label # "" /\ Strip(RowsRead(panel)[i].value) # <<>>)
                       => clean_label(RowsRead(panel)[i].label) \in DOMAIN details

\* reading the second row of a panel raised and the mapping of the first row
\* was returned
C14_Witness ==
    /\ pc = "extracted"
    /\ panel.present
    /\ panel.error_at = 2
    /\ Len(panel.rows) = 2
    /\ DOMAIN details = {"Rate"}

(***************************************************************************)
(* Claims about the wizard screens (WizardSpec).                           *)
(***************************************************************************)
\* C15: a single-choice field is reported as set (set_select_like returned
\* True, or screen2's select by id marked success) only after a read-back
\* of the control showed the requested value.
C15_SetOnlyAfterReadBack ==
    /\ wizard.select.returned => wizard.select.verified
    /\ wizard.by_id.returned => wizard.by_id.verified

\* screen sc has returned (not raised)
ScreenReturned(sc) ==
    \/ wizard.screen > sc
    \/ wizard.screen = sc /\ pc \in {"next screen", "wizard done"}

AppliedOn(sc) == {cell \in wizard.applied : cell[1] = sc}

AllFieldsOf(sc) == {<<sc, i>> : i \in 1..Len(ScreenFields[sc])}

C27_StrategiesInRankOrder ==
    LET order == <<"id", "accessible", "tile/radio", "native", "fallback", "direct">>
        position(t) == CHOOSE i \in 1..Len(order) : order[i] = t.strategy
        rank(t) == IF position(t) <= 2 THEN position(t)
                   ELSE IF position(t) <= 5 THEN 3 ELSE 4
        tried == wizard.tried
    IN tried # <<>> =>
          /\ tried[1].strategy = "id"
          /\ \A i \in 1..Len(tried) : \E k \in 1..Len(order) : order[k] = tried[i].strategy
          /\ \A i, j \in 1..Len(tried) :
                i < j => (position(tried[i]) < position(tried[j])
                          /\ rank(tried[i]) <= rank(tried[j]))
          /\ \A i \in 1..(Len(tried) - 1) : ~tried[i].succeeded
          /\ tried[Len(tried)].succeeded =
                (\/ wizard.select.returned
                 \/ wizard.by_id.returned
                 \/ (wizard.select = NoSelect /\ wizard.by_id = NoSelect))

\* a select was set by the click on the option's text, after its id, the
\* accessible select and the strategies by label proximity had failed
C27_Witness ==
    /\ wizard.select.returned
    /\ Len(wizard.tried) >= 4
    /\ wizard.tried[Len(wizard.tried)] = Try("direct", TRUE)
    /\ \E i \in 1..Len(wizard.tried) : wizard.tried[i].strategy = "fallback"

(***************************************************************************)
(* Claims about the results screen and the extraction per cell (Spec).     *)
(***************************************************************************)
\* C17: a session in which the results screen never came up has ended with
\* run() raising, without any sweep data and with no Run and no Variation
\* stored.
C17_NoResultsAbortsRun ==
    (pc \in {"exit0", "exit1"} /\ results = "never") =>
        /\ pc = "exit1"
        /\ all_data_by_laufzeit = <<>>
        /\ scraping_runs = <<>>
        /\ fixierung_variations = <<>>

\* C18: scrape_offer_details is called at most twice for a cell, and when
\* the cell is recorded with an empty mapping or with the previous cell's
\* mapping it has been called exactly twice.
C18_EmptyExtractionRetriedOnce ==
    /\ extractions <= 2
    /\ (pc = "record" /\ (details = EmptyDict \/ details = previous_details)) =>
          extractions = 2

\* C22 as stated: any two Runs the session stored agree on every column
\* the session writes other than laufzeit_jahre.
C22_RunsDifferOnlyInTerm ==
    \A i, j \in 1..Len(scraping_runs) :
        \A c \in RunColumns \ {"laufzeit_jahre"} :
            scraping_runs[i][c] = scraping_runs[j][c]

\* C22 as amended: any two Runs the session stored have different terms and
\* agree on every column of base_metadata (scrape_date and notes are written
\* per Run).
C22_BaseMetadataConstant ==
    \A i, j \in 1..Len(scraping_runs) :
        /\ i # j => scraping_runs[i].laufzeit_jahre # scraping_runs[j].laufzeit_jahre
        /\ \A c \in DOMAIN base_metadata :
              /\ scraping_runs[i][c] = scraping_runs[j][c]
              /\ scraping_runs[i][c] = NumericAffinity(Adapt(base_metadata[c]))

\* the session has saved the Runs of two terms and returned
C22_Witness ==
    /\ pc = "exit0"
    /\ Len(scraping_runs) = 2
    /\ Len(save_log) = 2

(***************************************************************************)
(* Claims about the order of the session's calls (Spec).                   *)
(***************************************************************************)
\* C24: the slider calls made so far are the beginning of the sweep's plan
\* (for each term in list order one term-slider call, then one fixed-period
\* call per grid value in ascending order) and are the whole plan once the
\* sweep is over; the Variations recorded for a term are one per grid value
\* set so far, the i-th with the i-th grid value.
C24_SweepFollowsGrid ==
    LET RECURSIVE plan(_)
        plan(terms) ==
            IF terms = <<>> THEN <<>>
            ELSE LET grid == get_fixierung_values_for_laufzeit(Head(terms))
                 IN <<Call("set_laufzeit_slider", Head(terms))>>
                    \o [i \in 1..Len(grid) |-> Call("set_fixierung_slider", grid[i])]
                    \o plan(Tail(terms))
        slider(c) == c.op \in {"set_laufzeit_slider", "set_fixierung_slider"}
        made == SelectSeq(calls, slider)
        whole == plan(laufzeiten_to_scrape)
        aligned(variations, grid) ==
            /\ Len(variations) <= Len(grid)
            /\ \A i \in 1..Len(variations) :
                  variations[i]["fixierung_jahre"] = PyInt(grid[i])
    IN /\ Len(made) <= Len(whole)
       /\ made = SubSeq(whole, 1, Len(made))
       /\ \A i \in 1..(Len(made) - 1) :
             (made[i].op = "set_fixierung_slider" /\ made[i + 1].op = "set_fixierung_slider")
                => made[i].arg < made[i + 1].arg
       /\ pc = "final_screenshot" => made = whole
       /\ \A k \in 1..Len(all_data_by_laufzeit) :
             LET grid == get_fixierung_values_for_laufzeit(all_data_by_laufzeit[k].laufzeit)
             IN /\ aligned(all_data_by_laufzeit[k].variations, grid)
                /\ Len(all_data_by_laufzeit[k].variations) = Len(grid)
       /\ Sweeping =>
             /\ aligned(variations_data, fixierung_values)
             /\ Len(variations_data) = (IF pc \in {"screenshot"} THEN fi ELSE fi - 1)

\* the sweep of two terms is over, the first with a grid of several values,
\* after a slider call had failed and a cell had given no data
C24_Witness ==
    /\ pc = "final_screenshot"
    /\ Len(all_data_by_laufzeit) = 2
    /\ Len(all_data_by_laufzeit[1].variations) >= 2
    /\ slider_warned
    /\ \E i \in 1..Len(all_data_by_laufzeit[1].variations) :
          all_data_by_laufzeit[1].variations[i]["rate"] = PyNone

\* C25: every call of scrape_offer_details comes directly after a
\* time.sleep, so that a wait lies between it and the slider call before it.
C25_SettleBeforeExtraction ==
    \A i \in 1..Len(calls) :
        calls[i].op = "scrape_offer_details" =>
            /\ i > 1
            /\ calls[i - 1].op = "time.sleep"
            /\ \E j \in 1..(i - 1) :
                  /\ calls[j].op \in {"set_laufzeit_slider", "set_fixierung_slider"}
                  /\ \A k \in (j + 1)..(i - 1) : calls[k].op = "time.sleep"

\* the first cell has been extracted after one of its two slider calls failed
C25_Witness ==
    /\ pc = "record"
    /\ li = 1
    /\ fi = 1
    /\ slider_warned
    /\ calls[Len(calls)].op = "scrape_offer_details"

\* C26: the screen calls made so far are the beginning of screen1, screen2,
\* screen3, and a call of screen4 or of a slider has all three before it,
\* as the session's first three calls.
C26_WizardOnceBeforeSweep ==
    LET wizard_calls == <<Call("screen1", 0), Call("screen2", 0), Call("screen3", 0)>>
        screen(c) == c.op \in {"screen1", "screen2", "screen3"}
        made == SelectSeq(calls, screen)
    IN /\ Len(made) <= 3
       /\ made = SubSeq(wizard_calls, 1, Len(made))
       /\ \A i \in 1..Len(calls) :
             calls[i].op \in {"screen4", "set_laufzeit_slider", "set_fixierung_slider"} =>
                /\ i > 3
                /\ SubSeq(calls, 1, 3) = wizard_calls

\* the sweep of two terms went on after cells had failed, and the session
\* has ended
C26_Witness ==
    /\ pc = "exit0"
    /\ faults = MaxFaults
    /\ Len(all_data_by_laufzeit) = 2
    /\ \E i \in 1..Len(calls) : calls[i].op = "set_fixierung_slider" /\ calls[i].arg > 0

\* C28: a session that has ended after its sweep had begun has had screen4
\* return, with one Variation list per configured term that has one
\* Variation per value of the term's finite grid, each cell of the term set
\* and extracted exactly once.
C28_SweepReturns ==
    (pc \in {"exit0", "exit1"}
       /\ \E i \in 1..Len(calls) : calls[i].op = "set_laufzeit_slider") =>
        /\ Len(all_data_by_laufzeit) = Len(laufzeiten_to_scrape)
        /\ \A k \in 1..Len(laufzeiten_to_scrape) :
              /\ all_data_by_laufzeit[k].laufzeit = laufzeiten_to_scrape[k]
              /\ Len(all_data_by_laufzeit[k].variations) =
                    (laufzeiten_to_scrape[k] \div 5) + 1
              /\ \A m \in 0..(laufzeiten_to_scrape[k] \div 5) :
                    Cardinality(
                        {i \in 1..(Len(calls) - 2) :
                            /\ calls[i] = Call("set_fixierung_slider", 5 * m)
                            /\ calls[i + 2].op = "scrape_offer_details"
                            /\ \E j \in 1..(i - 1) :
                                  /\ calls[j] = Call("set_laufzeit_slider",
                                                     laufzeiten_to_scrape[k])
                                  /\ \A h \in (j + 1)..(i - 1) :
                                        calls[h].op # "set_laufzeit_slider"}) = 1

(***************************************************************************)
(* Claims about the number normalizers (ParseSpec).                        *)
(***************************************************************************)
\* digits with one "." decimal point between them, and nothing else
Canonical(t) ==
    /\ \A i \in 1..Len(t) : IsDigit(t[i]) \/ t[i] = "."
    /\ CountChar(t, ".") = 1
    /\ t[1] # "."
    /\ t[Len(t)] # "."

\* C19: a normalizer applied to a canonical numeric text returns the number
\* the text denotes.
C19_CanonicalTextKeepsItsValue ==
    (pc \in {"parsed currency", "parsed german number"}
       /\ value.kind = "str" /\ value.val # <<>> /\ Canonical(value.val)) =>
        parsed = PyFloatOf(value.val)

C29_SwapFetchedExactlyWhenNeeded ==
    LET f == last_fetch
        month_number(year, month) == 12 * year + month
        required ==
            {p \in SwapPeriods :
                /\ month_number(f.start_date.year, f.start_date.month)
                      <= month_number(p[1], p[2])
                /\ month_number(p[1], p[2])
                      <= month_number(f.end_date.year, f.end_date.month)}
        cache_missing == f.cached.state = "missing"
        cache_empty == f.cached.state = "unreadable" \/ DOMAIN f.cached.data = {}
        month_missing == \E p \in required : p \notin DOMAIN f.cached.data
        fetched == Len(f.api_calls) > 0
    IN f.op = "fetch_all_rates" =>
          /\ fetched <=> (f.force_api \/ cache_missing \/ cache_empty \/ month_missing)
          /\ ~fetched =>
                /\ f.swap_rates = f.cached.data
                /\ f.writes = 0
                /\ manual_swap_file = f.cached

\* a call whose range runs from November 2024 through January 2025 was served
\* from a cache that an earlier call had filled from the Sparkasse API
C29_Witness ==
    /\ last_fetch.op = "fetch_all_rates"
    /\ ~last_fetch.force_api
    /\ last_fetch.start_date = [year |-> 2024, month |-> 11]
    /\ last_fetch.end_date = [year |-> 2025, month |-> 1]
    /\ last_fetch.api_calls = <<>>
    /\ SwapPeriods \subseteq DOMAIN last_fetch.swap_rates
    /\ \E p \in SwapPeriods : last_fetch.cached.data[p] = "sparkasse"

====
